---- MODULE Spec2Model ----
(***************************************************************************)
(* Taichi theme generator API (src/api/generate-theme.ts): the OKLCH       *)
(* palette engine generateTheme, the request handler and its per-IP rate   *)
(* limiter, modelled as a state machine.                                   *)
(*                                                                         *)
(* Numbers.  The source computes in IEEE doubles; the model computes in    *)
(* fixed point on integers that fit 32 bits.  A lightness, chroma, Lab or  *)
(* linear-light value x is the integer x * Q (micro units), a hue h is the *)
(* integer h * HueQ (milli-degrees).  Strings are sequences of one-        *)
(* character strings, so that parsing, formatting and hashing act on       *)
(* characters.  The arithmetic and the two colour conversions are          *)
(* functions, applied with square brackets.  On every call of the model    *)
(* the tokens computed are those the doubles of the source give.           *)
(***************************************************************************)
EXTENDS Integers, Sequences, FiniteSets, TLC

\* Fixed-point scales of the model (not program values).
Q == 1000 * 1000
HueQ == 10 * 100

Abs[x \in Int] == IF x < 0 THEN 0 - x ELSE x
Min[x \in Int, y \in Int] == IF x <= y THEN x ELSE y
Max[x \in Int, y \in Int] == IF x >= y THEN x ELSE y
Sign[x \in Int] == IF x < 0 THEN -1 ELSE 1

\* ax * ay on micro units for magnitudes, the product truncated to a micro
\* unit; computed on the thousands and units of each factor so that no
\* intermediate exceeds 32 bits.
MulAbs[ax \in Nat, ay \in Nat] ==
  (ax \div 1000) * (ay \div 1000)
    + (((ax \div 1000) * (ay % 1000) + (ax % 1000) * (ay \div 1000)
        + (((ax % 1000) * (ay % 1000)) \div 1000)) \div 1000)

\* x * y on micro units.
MulQ[x \in Int, y \in Int] == Sign[x] * Sign[y] * MulAbs[Abs[x], Abs[y]]

\* x / y on micro units, for 0 <= x and 0 < y.
DivQ[x \in Int, y \in Int] ==
  ((x * 1000) \div y) * 1000 + ((((x * 1000) % y) * 1000) \div y)

(***************************************************************************)
(* Strings                                                                 *)
(***************************************************************************)
\* Number.prototype.toString(16) digits / the digits parseInt(_, 16) reads.
LowerHex == <<"0", "1", "2", "3", "4", "5", "6", "7", "8", "9", "a", "b", "c", "d", "e", "f">>
UpperHex == <<"0", "1", "2", "3", "4", "5", "6", "7", "8", "9", "A", "B", "C", "D", "E", "F">>

\* The character class [a-f\d] under the i flag.
IsHexDigit(ch) == \E i \in 1..16 : LowerHex[i] = ch \/ UpperHex[i] = ch

HexDigitValue(ch) == (CHOOSE i \in 1..16 : LowerHex[i] = ch \/ UpperHex[i] = ch) - 1

\* parseInt(s, 16) of a string of hex digits.
parseInt16(s) ==
  LET value[i \in 0..Len(s)] ==
        IF i = 0 THEN 0 ELSE value[i - 1] * 16 + HexDigitValue(s[i])
  IN  value[Len(s)]

\* n.toString(16) for an integer 0 <= n <= 255.
toString16(n) ==
  IF n < 16 THEN <<LowerHex[n + 1]>> ELSE <<LowerHex[(n \div 16) + 1], LowerHex[(n % 16) + 1]>>

\* padStart left out: a channel below 16 keeps its single digit.
padStartOmitted(s, len, ch) == s

\* s.padStart(len, ch)
padStart(s, len, ch) ==
  IF Len(s) >= len THEN s ELSE [i \in 1..(len - Len(s)) |-> ch] \o s

(***************************************************************************)
(* OKLCH colour space                                                      *)
(***************************************************************************)
\* linearizeChannel(c) for every channel value c = 0..255 (entry c + 1), in
\* micro units: (c/255)/12.92 up to 0.04045, ((c/255 + 0.055)/1.055)^2.4 above.
LinearTable ==
  <<
      0, 304, 607, 911, 1214, 1518, 1821, 2125, 2428, 2732, 3035, 3347,
      3677, 4025, 4391, 4777, 5182, 5605, 6049, 6512, 6995, 7499, 8023, 8568,
      9134, 9721, 10330, 10960, 11612, 12286, 12983, 13702, 14444, 15209, 15996, 16807,
      17642, 18500, 19382, 20289, 21219, 22174, 23153, 24158, 25187, 26241, 27321, 28426,
      29557, 30713, 31896, 33105, 34340, 35601, 36889, 38204, 39546, 40915, 42311, 43735,
      45186, 46665, 48172, 49707, 51269, 52861, 54480, 56128, 57805, 59511, 61246, 63010,
      64803, 66626, 68478, 70360, 72272, 74214, 76185, 78187, 80220, 82283, 84376, 86500,
      88656, 90842, 93059, 95307, 97587, 99899, 102242, 104616, 107023, 109462, 111932, 114435,
      116971, 119538, 122139, 124772, 127438, 130136, 132868, 135633, 138432, 141263, 144128, 147027,
      149960, 152926, 155926, 158961, 162029, 165132, 168269, 171441, 174647, 177888, 181164, 184475,
      187821, 191202, 194618, 198069, 201556, 205079, 208637, 212231, 215861, 219526, 223228, 226966,
      230740, 234551, 238398, 242281, 246201, 250158, 254152, 258183, 262251, 266356, 270498, 274677,
      278894, 283149, 287441, 291771, 296138, 300544, 304987, 309469, 313989, 318547, 323143, 327778,
      332452, 337164, 341914, 346704, 351533, 356400, 361307, 366253, 371238, 376262, 381326, 386429,
      391572, 396755, 401978, 407240, 412543, 417885, 423268, 428690, 434154, 439657, 445201, 450786,
      456411, 462077, 467784, 473531, 479320, 485150, 491021, 496933, 502886, 508881, 514918, 520996,
      527115, 533276, 539479, 545724, 552011, 558340, 564712, 571125, 577580, 584078, 590619, 597202,
      603827, 610496, 617207, 623960, 630757, 637597, 644480, 651406, 658375, 665387, 672443, 679542,
      686685, 693872, 701102, 708376, 715694, 723055, 730461, 737910, 745404, 752942, 760525, 768151,
      775822, 783538, 791298, 799103, 806952, 814847, 822786, 830770, 838799, 846873, 854993, 863157,
      871367, 879622, 887923, 896269, 904661, 913099, 921582, 930111, 938686, 947307, 955973, 964686,
      973445, 982251, 991102, 1000000
  >>

\* linearizeChannel without the transfer curve: v = c / 255.
linearizeChannelNoGamma(c) == (c * Q) \div 255

linearizeChannel(c) == LinearTable[c + 1]

\* The linear-light value (micro units) from which delinearizeChannel rounds
\* to channel k or more (entry k, k = 1..255): the sRGB transfer curve is
\* increasing, so round(255 * v(c)) >= k exactly when c is at least the
\* linear value of channel k - 1/2.
RoundUpTable ==
  <<
      152, 455, 759, 1062, 1366, 1669, 1973, 2276, 2580, 2884, 3188, 3509,
      3848, 4206, 4582, 4977, 5391, 5825, 6278, 6751, 7245, 7759, 8293, 8848,
      9425, 10023, 10642, 11283, 11947, 12632, 13340, 14070, 14823, 15600, 16399, 17222,
      18068, 18938, 19832, 20751, 21693, 22661, 23652, 24669, 25711, 26778, 27870, 28988,
      30132, 31301, 32497, 33719, 34967, 36242, 37544, 38872, 40227, 41610, 43020, 44457,
      45922, 47415, 48936, 50484, 52062, 53667, 55301, 56963, 58655, 60375, 62124, 63903,
      65711, 67548, 69415, 71312, 73239, 75196, 77183, 79200, 81247, 83326, 85434, 87574,
      89745, 91946, 94179, 96443, 98739, 101066, 103425, 105816, 108238, 110693, 113180, 115699,
      118250, 120835, 123451, 126101, 128783, 131498, 134247, 137028, 139843, 142692, 145574, 148489,
      151439, 154422, 157439, 160491, 163576, 166696, 169851, 173040, 176264, 179522, 182815, 186143,
      189507, 192905, 196339, 199808, 203313, 206853, 210429, 214041, 217689, 221373, 225092, 228848,
      232641, 236470, 240335, 244237, 248175, 252151, 256163, 260212, 264298, 268422, 272583, 276781,
      281017, 285290, 289601, 293950, 298336, 302761, 307223, 311724, 316263, 320840, 325456, 330110,
      334803, 339534, 344304, 349113, 353961, 358849, 363775, 368740, 373745, 378789, 383873, 388996,
      394159, 399362, 404604, 409886, 415209, 420571, 425974, 431417, 436900, 442424, 447988, 453593,
      459239, 464925, 470653, 476421, 482230, 488080, 493972, 499905, 505879, 511894, 517951, 524050,
      530191, 536373, 542597, 548863, 555171, 561521, 567913, 574347, 580824, 587343, 593905, 600509,
      607156, 613846, 620578, 627353, 634172, 641033, 647937, 654885, 661876, 668910, 675987, 683108,
      690273, 697481, 704733, 712029, 719369, 726752, 734180, 741652, 749168, 756728, 764332, 771981,
      779674, 787412, 795195, 803022, 810894, 818811, 826772, 834779, 842830, 850927, 859069, 867256,
      875489, 883767, 892091, 900460, 908874, 917335, 925841, 934393, 942990, 951634, 960324, 969060,
      977842, 986671, 995545
  >>

\* The largest k in 0..255 whose threshold c has reached, by bisection: the
\* answer is k or lies within 2 * step - 1 above it.
roundUpSearch[c \in Int, k \in Nat, step \in Nat] ==
  IF step = 0 THEN k
  ELSE roundUpSearch[c, IF c >= RoundUpTable[k + step] THEN k + step ELSE k, step \div 2]

\* Math.round(Math.max(0, Math.min(255, v * 255))) for v the sRGB transfer of
\* the linear value c.
delinearizeChannel(c) == roundUpSearch[c, 0, 128]

\* n passes of Newton's iteration p <- (2p + x/p^2)/3 for the cube root of x.
cbrtNewton[x \in Int, p \in Int, n \in Nat] ==
  IF n = 0 THEN p
  ELSE cbrtNewton[x,
                  IF MulQ[p, p] = 0 THEN p ELSE (2 * p + DivQ[x, MulQ[p, p]]) \div 3,
                  n - 1]

\* Math.cbrt(x) on micro units, x >= 0: Newton's iteration from a power of two
\* above the root.
cbrt[x \in Int] ==
  IF x <= 0 THEN 0
  ELSE cbrtNewton[x,
                  IF x > Q THEN 2 * Q
                  ELSE IF x >= 125000 THEN Q
                  ELSE IF x >= 15625 THEN 500000
                  ELSE IF x >= 1953 THEN 250000
                  ELSE IF x >= 244 THEN 125000
                  ELSE IF x >= 30 THEN 62500
                  ELSE 31250,
                  6]

\* n passes of Heron's iteration p <- (p + x/p)/2 for the square root of x.
sqrtHeron[x \in Int, p \in Int, n \in Nat] ==
  IF n = 0 THEN p ELSE sqrtHeron[x, (p + DivQ[x, p]) \div 2, n - 1]

\* Math.sqrt(x) on micro units for Q <= x <= 2Q.
sqrt12[x \in Int] == sqrtHeron[x, 1200000, 4]

\* mx * sqrt(1 + (mn / mx)^2) for magnitudes mn <= mx.
hypot[mx \in Nat, mn \in Nat] ==
  IF mx = 0 THEN 0
  ELSE MulQ[mx, sqrt12[Q + MulQ[DivQ[mn, mx], DivQ[mn, mx]]]]

\* Math.sqrt(a * a + b * b) on micro units.
sqrtSumSquares[a \in Int, b \in Int] == hypot[Max[Abs[a], Abs[b]], Min[Abs[a], Abs[b]]]

\* The series z - z^3/3 + z^5/5 - ... - z^11/11 of atan, z2 = z * z.
atanSeries[z \in Int, z2 \in Int] ==
  MulQ[z, Q - MulQ[z2, (Q \div 3) - MulQ[z2, (Q \div 5) - MulQ[z2,
          (Q \div 7) - MulQ[z2, (Q \div 9) - MulQ[z2, Q \div 11]]]]]]

atanSmall[z \in Int] == atanSeries[z, MulQ[z, z]]

\* atan(t) in micro-radians for 0 <= t <= 1 (micro units): the series of atan,
\* on t itself up to tan(pi/8) and on (1 - t)/(1 + t) below pi/4 above it.
atanUnit[t \in Int] ==
  IF t > 414214 THEN 785398 - atanSmall[DivQ[Q - t, Q + t]] ELSE atanSmall[t]

\* radians (micro) * (180 / Math.PI), in milli-degrees.
radToDeg[r \in Int] == (r * 57 + MulQ[r, 295780]) \div 1000

\* milli-degrees * (Math.PI / 180), in micro-radians.
degToRad[d \in Int] == d * 17 + MulQ[d, 453293]

\* atan(ab / aa) in milli-degrees for magnitudes not both zero.
atanRatio[ab \in Nat, aa \in Nat] ==
  IF ab <= aa THEN radToDeg[atanUnit[DivQ[ab, aa]]]
  ELSE 90000 - radToDeg[atanUnit[DivQ[aa, ab]]]

\* The angle th of the first quadrant carried to the quadrant of (a, b).
atanQuadrant[b \in Int, a \in Int, th \in Int] ==
  IF a >= 0 /\ b >= 0 THEN th
  ELSE IF a < 0 /\ b >= 0 THEN 180000 - th
  ELSE IF a < 0 THEN th - 180000
  ELSE 0 - th

\* Math.atan2(b, a) * (180 / Math.PI), in milli-degrees in (-180000, 180000];
\* atan2(0, 0) = 0.
atan2Deg[b \in Int, a \in Int] ==
  IF a = 0 /\ b = 0 THEN 0 ELSE atanQuadrant[b, a, atanRatio[Abs[b], Abs[a]]]

\* <<sin x, cos x>> by their series, x2 = x * x.
sinCosSeries[x \in Int, x2 \in Int] ==
  <<MulQ[x, Q - MulQ[x2, (Q - MulQ[x2, (Q - MulQ[x2, Q \div 42]) \div 20]) \div 6]],
    Q - MulQ[x2, (Q - MulQ[x2, (Q - MulQ[x2, (Q - MulQ[x2, Q \div 56]) \div 30]) \div 12]) \div 2]>>

\* <<sin x, cos x>> for 0 <= x <= pi/4 (micro-radians).
sinCosOctant[x \in Int] == sinCosSeries[x, MulQ[x, x]]

\* <<sin, cos>> of the complementary angle.
complement[sc \in Int \X Int] == <<sc[2], sc[1]>>

\* <<sin, cos>> of r milli-degrees, 0 <= r < 90000.
sinCosQuadrant[r \in Int] ==
  IF r <= 45000 THEN sinCosOctant[degToRad[r]]
  ELSE complement[sinCosOctant[degToRad[90000 - r]]]

\* <<sin, cos>> of an angle q quarter turns beyond the one of sc.
quarterTurns[q \in Int, sc \in Int \X Int] ==
  CASE q = 0 -> sc
    [] q = 1 -> <<sc[2], 0 - sc[1]>>
    [] q = 2 -> <<0 - sc[1], 0 - sc[2]>>
    [] OTHER -> <<0 - sc[2], sc[1]>>

\* <<Math.sin, Math.cos>> of a hue of h milli-degrees.
sinCosDeg[h \in Int] == quarterTurns[(h % 360000) \div 90000, sinCosQuadrant[h % 90000]]

OklchColor == [L : Int, C : Int, H : Int]

\* hexToRgb that also reads the three-digit shorthand, each digit doubled.
hexToRgbShorthand(hex) ==
  LET digits == IF Len(hex) > 0 /\ hex[1] = "#" THEN Tail(hex) ELSE hex
      wide   == IF Len(digits) = 3
                THEN <<digits[1], digits[1], digits[2], digits[2], digits[3], digits[3]>>
                ELSE digits
      result == Len(wide) = 6 /\ \A i \in 1..6 : IsHexDigit(wide[i])
  IN  IF result
      THEN [r |-> parseInt16(SubSeq(wide, 1, 2)),
            g |-> parseInt16(SubSeq(wide, 3, 4)),
            b |-> parseInt16(SubSeq(wide, 5, 6))]
      ELSE [r |-> 0, g |-> 0, b |-> 0]

hexToRgb(hex) ==
  LET digits == IF Len(hex) > 0 /\ hex[1] = "#" THEN Tail(hex) ELSE hex
      result == Len(digits) = 6 /\ \A i \in 1..6 : IsHexDigit(digits[i])
  IN  IF result
      THEN [r |-> parseInt16(SubSeq(digits, 1, 2)),
            g |-> parseInt16(SubSeq(digits, 3, 4)),
            b |-> parseInt16(SubSeq(digits, 5, 6))]
      ELSE [r |-> 0, g |-> 0, b |-> 0]

\* The channels reaching rgbToHex are integers already (Math.round is the
\* identity on them); each is clamped to 0..255, written in base 16 and
\* padded to two digits.
rgbToHex(r, g, b) ==
  LET byte(x) == padStart(toString16(Max[0, Min[255, x]]), 2, "0")
  IN  <<"#">> \o byte(r) \o byte(g) \o byte(b)

\* a row of three coefficients (micro units) applied to a vector.
Dot3(k1, k2, k3, v) == MulQ[k1, v[1]] + MulQ[k2, v[2]] + MulQ[k3, v[3]]

\* if (H < 0) H += 360
wrapHue[H \in Int] == IF H < 0 THEN H + 360000 ELSE H

\* toOklch from the Lab coordinates <<L, a, b_>> on: C, H and the result.
toOklchFromLab[lab \in Int \X Int \X Int] ==
  [L |-> lab[1],
   C |-> sqrtSumSquares[lab[2], lab[3]],
   H |-> wrapHue[atan2Deg[lab[3], lab[2]]]]

\* toOklch from the cube roots <<l_, m_, s_>> on.
toOklchFromRoots[lms \in Int \X Int \X Int] ==
  toOklchFromLab[<<Dot3(210454, 793618, -4072, lms),
                   Dot3(1977998, -2428592, 450594, lms),
                   Dot3(25904, 782772, -808676, lms)>>]

\* toOklch from the linear channels <<lr, lg, lb>> on.
toOklchFromLinear[lin \in Int \X Int \X Int] ==
  toOklchFromRoots[<<cbrt[Dot3(412221, 536333, 51446, lin)],
                     cbrt[Dot3(211903, 680700, 107397, lin)],
                     cbrt[Dot3(88302, 281719, 629979, lin)]>>]

\* { r: number; g: number; b: number }
RgbChannels == [r : Int, g : Int, b : Int]

\* toOklch from the channels of hexToRgb on.
toOklchFromRgb[rgb \in RgbChannels] ==
  toOklchFromLinear[<<linearizeChannel(rgb.r), linearizeChannel(rgb.g),
                      linearizeChannel(rgb.b)>>]

toOklch[hex \in Seq(STRING)] == toOklchFromRgb[hexToRgb(hex)]

x3[x \in Int] == MulQ[MulQ[x, x], x]

\* toHex from the cubes <<l, m, s>> on.
toHexFromCubes[lms \in Int \X Int \X Int] ==
  rgbToHex(delinearizeChannel(Dot3(4076742, -3307712, 230970, lms)),
           delinearizeChannel(Dot3(-1268438, 2609757, -341319, lms)),
           delinearizeChannel(Dot3(-4196, -703419, 1707615, lms)))

\* toHex from the Lab coordinates a and b on.
toHexFromLab[L \in Int, a \in Int, b \in Int] ==
  toHexFromCubes[<<x3[L + MulQ[396338, a] + MulQ[215804, b]],
                   x3[L - MulQ[105561, a] - MulQ[63854, b]],
                   x3[L - MulQ[89484, a] - MulQ[1291486, b]]>>]

\* toHex from <<sin, cos>> of the hue on.
toHexFromSinCos[L \in Int, C \in Int, sc \in Int \X Int] ==
  toHexFromLab[L, MulQ[C, sc[2]], MulQ[C, sc[1]]]

toHex[color \in OklchColor] ==
  IF color.L <= 0 THEN <<"#", "0", "0", "0", "0", "0", "0">>
  ELSE IF color.L >= Q THEN <<"#", "f", "f", "f", "f", "f", "f">>
  ELSE toHexFromSinCos[color.L, color.C, sinCosDeg[color.H]]

\* The test of the loop of clampToSRGBGamut on a probe and its round trip.
survives[test \in OklchColor, back \in OklchColor] ==
  Abs[back.L - test.L] < 20000 /\ Abs[back.C - test.C] < 20000

\* The for loop of clampToSRGBGamut from pass i on, over its variables low,
\* high and result.
clampLoop[color \in OklchColor, i \in Nat, low \in Int, high \in Int, result \in OklchColor] ==
  IF i < 10
  THEN LET mid  == (low + high) \div 2
           test == [color EXCEPT !.C = mid]
       IN  IF survives[test, toOklch[toHex[test]]]
           THEN clampLoop[color, i + 1, mid, high, test]
           ELSE clampLoop[color, i + 1, low, mid, result]
  ELSE result

\* The binary search for the largest chroma that survives the round trip.
clampToSRGBGamut(color) == clampLoop[color, 0, 0, color.C, [color EXCEPT !.C = 0]]

\* The locals of clampToSRGBGamut at its entry, before the first pass.
\* The entry with result starting as the input colour, its chroma kept.
clampEntryFullChroma(color) ==
  [color |-> color, i |-> 0, low |-> 0, high |-> color.C, result |-> color]

clampEntry(color) ==
  [color |-> color, i |-> 0, low |-> 0, high |-> color.C, result |-> [color EXCEPT !.C = 0]]

\* The loop condition with the search also ended once low and high have met.
loopConditionUntilMet(run) == run.i < 10 /\ run.high - run.low > 1

\* The condition of the for loop: i < 10.
loopCondition(run) == run.i < 10

\* One pass of the for loop, the i++ included.
clampPass(run) ==
  LET mid  == (run.low + run.high) \div 2
      test == [run.color EXCEPT !.C = mid]
  IN  IF survives[test, toOklch[toHex[test]]]
      THEN [run EXCEPT !.i = @ + 1, !.low = mid, !.result = test]
      ELSE [run EXCEPT !.i = @ + 1, !.high = mid]

(***************************************************************************)
(* Contrast utilities                                                      *)
(***************************************************************************)
\* 0.2126 * toL(r) + 0.7152 * toL(g) + 0.0722 * toL(b); toL is the same curve
\* as linearizeChannel.
getRelativeLuminance(hex) ==
  LET rgb == hexToRgb(hex)
      toL(c) == LinearTable[c + 1]
  IN  MulQ[212600, toL(rgb.r)] + MulQ[715200, toL(rgb.g)] + MulQ[72200, toL(rgb.b)]

\* selectForeground with the threshold at half the luminance range.
selectForegroundHalf(bgHex) ==
  LET lum == getRelativeLuminance(bgHex)
  IN  IF lum > 500000 THEN <<"#", "0", "0", "0", "0", "0", "0">>
      ELSE <<"#", "F", "F", "F", "F", "F", "F">>

selectForeground(bgHex) ==
  LET lum == getRelativeLuminance(bgHex)
  IN  IF lum > 179000 THEN <<"#", "0", "0", "0", "0", "0", "0">>
      ELSE <<"#", "F", "F", "F", "F", "F", "F">>

(***************************************************************************)
(* Seeded random                                                           *)
(*                                                                         *)
(* The hash of a string leaves 32 bits, so a hash or seed n is the pair    *)
(* <<hi, lo>> with n = hi * 65536 + lo and 0 <= lo < 65536.                *)
(***************************************************************************)
Wide(hi, lo) == <<hi + (lo \div 65536), lo % 65536>>

\* hash << 5: ToInt32(hash), shifted left by 5 and wrapped to a signed 32-bit value.
shiftLeft5(hash) ==
  LET lo32 == hash[2] * 32
      hi16 == (((hash[1] % 65536) * 32) + (lo32 \div 65536)) % 65536
  IN  <<IF hi16 >= 32768 THEN hi16 - 65536 ELSE hi16, lo32 % 65536>>

CharAlphabet ==
  <<"#", "-", ".", "0", "1", "2", "3", "4", "5", "6", "7", "8", "9",
    "A", "B", "C", "D", "E", "F", "G", "a", "b", "c", "d", "e", "f", "g">>

CharCodes ==
  <<35, 45, 46, 48, 49, 50, 51, 52, 53, 54, 55, 56, 57,
    65, 66, 67, 68, 69, 70, 71, 97, 98, 99, 100, 101, 102, 103>>

\* str.charCodeAt(i), for the characters that occur in the model's strings.
charCodeAt(str, i) == CharCodes[CHOOSE k \in 1..Len(CharAlphabet) : CharAlphabet[k] = str[i]]

\* One pass of the loop of hashString: hash = (hash << 5) - hash + char.
hashStep[hash \in Int \X Int, char \in Int] ==
  LET shifted == shiftLeft5(hash)
  IN  Wide(shifted[1] - hash[1], shifted[2] - hash[2] + char)

hashString(str) ==
  LET hash[i \in 0..Len(str)] ==
        IF i = 0 THEN <<0, 0>> ELSE hashStep[hash[i - 1], charCodeAt(str, i)]
      final == hash[Len(str)]
  IN  IF final[1] < 0 THEN Wide(0 - final[1], 0 - final[2]) ELSE final

\* x - Math.floor(x) for x = Math.sin(seed) * 10000, in micro units.  The sine
\* of a ten-digit integer is beyond 32-bit fixed point, so the value is
\* tabulated for the seeds that the strings of the model hash to and their
\* successors, which the later draws on a generator read.
sinFraction(seed) ==
  CASE seed = <<27074, 30212>> -> 629132
      [] seed = <<27074, 30213>> -> 961745
      [] seed = <<4289, 19675>> -> 458806
      [] seed = <<4289, 19676>> -> 528560
      [] seed = <<16, 63619>> -> 939161
      [] seed = <<16, 63620>> -> 725517
      [] seed = <<23235, 28697>> -> 142693
      [] seed = <<23235, 28698>> -> 166942
      [] seed = <<28175, 57257>> -> 275651
      [] seed = <<28175, 57258>> -> 666070
      [] seed = <<121782, 56575>> -> 373121
      [] seed = <<121782, 56576>> -> 308824
      [] seed = <<122219, 46339>> -> 215609
      [] seed = <<122219, 46340>> -> 319317
      [] seed = <<121782, 56577>> -> 670366
      [] seed = <<121782, 56578>> -> 84844
      [] seed = <<122219, 46341>> -> 980221
      [] seed = <<122219, 46342>> -> 362155

\* SeededRandom.next(): the value drawn and the seed after this.seed++.
next(seed) == [value |-> sinFraction(seed), seed |-> Wide(seed[1], seed[2] + 1)]

\* SeededRandom.nextFloat(min, max) for a range in whole degrees, in milli-degrees.
nextFloat(seed, min, max) ==
  LET drawn == next(seed)
  IN  [value |-> min * HueQ + ((drawn.value * (max - min)) \div (Q \div HueQ)), seed |-> drawn.seed]

(***************************************************************************)
(* Harmony modes                                                           *)
(***************************************************************************)
HARMONY_MODES ==
  ("monochrome" :> <<0, 0, 0, 0, 0>>) @@
  ("analogous" :> <<0, 30, -30, 15, -15>>) @@
  ("complementary" :> <<0, 180, 30, 210, -30>>) @@
  ("split-complementary" :> <<0, 150, 210, 30, 180>>) @@
  ("triadic" :> <<0, 120, 240, 60, 180>>) @@
  ("tetradic" :> <<0, 90, 180, 270, 45>>) @@
  ("compound" :> <<0, 165, 180, 195, 30>>) @@
  ("triadic-split" :> <<0, 120, 150, 240, 270>>)

\* type GenerationMode
GenerationMode ==
  {"random", "monochrome", "analogous", "complementary", "split-complementary",
   "triadic", "tetradic", "compound", "triadic-split"}

(***************************************************************************)
(* OKLCH theme generator                                                   *)
(***************************************************************************)
\* An optional string argument that was not passed.
undefined == <<"undefined">>

\* JavaScript truthiness of an optional string: undefined and "" are falsy.
Truthy(str) == str # undefined /\ str # <<>>

\* The JavaScript remainder a % n, whose sign is that of a.
Rem(a, n) == IF a >= 0 THEN a % n ELSE 0 - ((0 - a) % n)

\* A hue as the double the source holds: <<whole, high, low>> stands for
\* whole + (high * 2^24 + low) / 2^48 degrees, which is exact for every double
\* from 16 up to 1024 and for the smaller ones with no bits below 2^-48.
Limb == 4096 * 4096

\* The bits of low a double of this whole part cannot hold (53 bits in all).
droppedBits(whole) ==
  IF whole >= 512 THEN 32
  ELSE IF whole >= 256 THEN 16
  ELSE IF whole >= 128 THEN 8
  ELSE IF whole >= 64 THEN 4
  ELSE IF whole >= 32 THEN 2
  ELSE 1

\* The sum of two doubles as the double nearest to it, ties to even.
roundToDouble(x) ==
  LET grid  == droppedBits(x[1])
      rest  == x[3] % grid
      down  == x[3] - rest
      up    == (2 * rest > grid) \/ (2 * rest = grid /\ (down \div grid) % 2 = 1)
      low   == IF up THEN down + grid ELSE down
      high  == IF low = Limb THEN x[2] + 1 ELSE x[2]
      whole == IF high = Limb THEN x[1] + 1 ELSE x[1]
  IN  <<whole, high % Limb, low % Limb>>

\* x % 360 for x >= 0, which is exact.
mod360(x) == <<x[1] % 360, x[2], x[3]>>

\* (baseHue + o) % 360 alone: the remainder keeps the sign of a negative sum.
resolveHueSingleRemainder(baseHue, o) ==
  IF baseHue[1] + o >= 0
  THEN mod360(roundToDouble(<<baseHue[1] + o, baseHue[2], baseHue[3]>>))
  ELSE <<baseHue[1] + o, baseHue[2], baseHue[3]>>

\* ((baseHue + o) % 360 + 360) % 360 with each sum rounded the way with
\* ties broken to even.  A negative baseHue + o is exact and is its own
\* remainder, so 360 is added to it directly.
resolveHueNearest(baseHue, o) ==
  IF baseHue[1] + o >= 0
  THEN LET sum == roundToDouble(<<baseHue[1] + o, baseHue[2], baseHue[3]>>)
           rem == mod360(sum)
       IN  mod360(roundToDouble(<<rem[1] + 360, rem[2], rem[3]>>))
  ELSE mod360(roundToDouble(<<baseHue[1] + o + 360, baseHue[2], baseHue[3]>>))

\* offsets.map(o => ((baseHue + o) % 360 + 360) % 360) on doubles.
resolveHuesDouble(baseHue, offsets) ==
  [i \in 1..Len(offsets) |-> resolveHueNearest(baseHue, offsets[i])]

\* The ThemeTokens object literal on the twelve colours of a scheme, each
\* clamped and then written as hex (the light and the dark literal have the
\* same shape).
ThemeTokens(colors) ==
  LET tokens(hex) ==
        [bg |-> hex.bg,
         card |-> hex.card,
         card2 |-> hex.card2,
         text |-> hex.text,
         textMuted |-> hex.textMuted,
         textOnColor |-> <<"#", "F", "F", "F", "F", "F", "F">>,
         primary |-> hex.primary,
         primaryFg |-> selectForeground(hex.primary),
         secondary |-> hex.secondary,
         secondaryFg |-> selectForeground(hex.secondary),
         accent |-> hex.accent,
         accentFg |-> selectForeground(hex.accent),
         border |-> hex.border,
         ring |-> hex.primary,
         good |-> hex.good,
         goodFg |-> selectForeground(hex.good),
         warn |-> hex.warn,
         warnFg |-> selectForeground(hex.warn),
         bad |-> hex.bad,
         badFg |-> selectForeground(hex.bad)]
  IN  tokens([k \in DOMAIN colors |-> toHex[clampToSRGBGamut(colors[k])]])

\* The list of modes with monochrome in the place of analogous.
RandomModesWithMonochrome ==
  <<"monochrome", "complementary", "split-complementary", "triadic", "tetradic",
    "compound", "triadic-split">>

\* The modes a "random" request draws from.
RandomModes ==
  <<"analogous", "complementary", "split-complementary", "triadic", "tetradic",
    "compound", "triadic-split">>

\* pickHarmony with the base hue always drawn from a generator seeded by
\* the entropy string, whether a base colour is passed or not.
pickHarmonyDrawnHue(mode, baseColor, entropy) ==
  LET rngSeed == IF Truthy(baseColor) THEN baseColor ELSE entropy
      picked  == next(hashString(rngSeed))
  IN  [harmonyMode |-> IF mode = "random"
                       THEN RandomModes[((picked.value * Len(RandomModes)) \div Q) + 1]
                       ELSE mode,
       baseHue |-> nextFloat(hashString(entropy), 0, 360).value]

\* pickHarmony with the generator always seeded by the entropy string.
pickHarmonyEntropySeed(mode, baseColor, entropy) ==
  LET picked == next(hashString(entropy))
  IN  [harmonyMode |-> IF mode = "random"
                       THEN RandomModes[((picked.value * Len(RandomModes)) \div Q) + 1]
                       ELSE mode,
       baseHue |-> IF Truthy(baseColor) THEN toOklch[baseColor].H
                   ELSE nextFloat(IF mode = "random" THEN picked.seed ELSE hashString(entropy),
                                  0, 360).value]

\* pickHarmony with the base hue of a "random" request always drawn from the
\* generator, after the draw of the mode.
pickHarmonyRandomDrawsHue(mode, baseColor, entropy) ==
  LET rng    == hashString(IF Truthy(baseColor) THEN baseColor ELSE entropy)
      picked == next(rng)
  IN  IF mode = "random"
      THEN [harmonyMode |-> RandomModes[((picked.value * Len(RandomModes)) \div Q) + 1],
            baseHue |-> nextFloat(picked.seed, 0, 360).value]
      ELSE [harmonyMode |-> mode,
            baseHue |-> IF Truthy(baseColor) THEN toOklch[baseColor].H
                        ELSE nextFloat(rng, 0, 360).value]

\* pickHarmony with the requested mode passed on unresolved.
pickHarmonyUnresolved(mode, baseColor, entropy) ==
  LET rng == hashString(IF Truthy(baseColor) THEN baseColor ELSE entropy)
  IN  [harmonyMode |-> mode,
       baseHue |-> IF Truthy(baseColor) THEN toOklch[baseColor].H
                   ELSE nextFloat(rng, 0, 360).value]

\* The harmony mode and the base hue of a call, and the seed the generator is
\* left with.  entropy is the string `${Date.now()}-${Math.random()}` of the
\* call, read only when baseColor is falsy.
pickHarmony(mode, baseColor, entropy) ==
  LET rngSeed == IF Truthy(baseColor) THEN baseColor ELSE entropy
      rng     == hashString(rngSeed)
      picked  == next(rng)
      harmonyMode == IF mode = "random"
                     THEN RandomModes[((picked.value * Len(RandomModes)) \div Q) + 1]
                     ELSE mode
      rngAfter == IF mode = "random" THEN picked.seed ELSE rng
      baseHue == IF Truthy(baseColor) THEN toOklch[baseColor].H
                 ELSE nextFloat(rngAfter, 0, 360).value
  IN  [harmonyMode |-> harmonyMode, baseHue |-> baseHue]

\* resultSeed always taken from the base hue, the base colour passed ignored.
resultSeedFromHue(baseColor, baseHue) ==
  toHex[clampToSRGBGamut([L |-> 500000, C |-> 150000, H |-> baseHue])]

\* The seed field of the result: baseColor || toHex(clampToSRGBGamut(...)).
resultSeed(baseColor, baseHue) ==
  IF Truthy(baseColor) THEN baseColor
  ELSE toHex[clampToSRGBGamut([L |-> 500000, C |-> 150000, H |-> baseHue])]

\* offsets and hues: the offsets of the mode (those of analogous when the
\* table has none) applied to the base hue, in milli-degrees.
harmonyHues(harmonyMode, baseHue) ==
  LET offsets == IF harmonyMode \in DOMAIN HARMONY_MODES
                 THEN HARMONY_MODES[harmonyMode] ELSE HARMONY_MODES["analogous"]
  IN  [i \in 1..Len(offsets) |->
         Rem(Rem(baseHue + offsets[i] * HueQ, 360 * HueQ) + 360 * HueQ, 360 * HueQ)]

\* baseChroma without its clamp: 0.14 * satMod.
baseChromaUnclamped(saturationLevel) == MulQ[140000, Q + saturationLevel * 120000]

\* baseChroma, from satMod = 1 + saturationLevel * 0.12.
baseChromaOf(saturationLevel) ==
  Min[180000, Max[80000, MulQ[140000, Q + saturationLevel * 120000]]]

\* The anchors that are clamped, from briMod and conMod.
lightBgLUnclamped(briMod) == 970000 + briMod

lightBgL(briMod) == Min[990000, Max[920000, 970000 + briMod]]

lightTextLUnclamped(briMod, conMod) == 180000 - MulQ[briMod, 500000] - conMod

lightTextL(briMod, conMod) == Max[100000, 180000 - MulQ[briMod, 500000] - conMod]

darkBgL(briMod) == Max[50000, Min[120000, 80000 - MulQ[briMod, 300000]]]

darkTextL(briMod) == Min[980000, 920000 + MulQ[briMod, 300000]]

\* The lightness anchors of the two themes.
lightnessAnchors(contrastLevel, brightnessLevel) ==
  LET briMod == brightnessLevel * 25000
      conMod == contrastLevel * 20000
      lightCardL == lightBgL(briMod) - 40000 - MulQ[conMod, 500000]
      darkCardL  == darkBgL(briMod) + 50000 + MulQ[conMod, 300000]
      primaryL   == 550000 + MulQ[briMod, 500000]
      secondaryL == 580000 + MulQ[briMod, 400000]
      accentL    == 520000 + MulQ[briMod, 300000]
  IN  [lightBgL        |-> lightBgL(briMod),
       lightCardL      |-> lightCardL,
       lightCard2L     |-> lightCardL - 30000,
       lightTextL      |-> lightTextL(briMod, conMod),
       lightTextMutedL |-> 450000,
       lightBorderL    |-> 820000,
       primaryL        |-> primaryL,
       secondaryL      |-> secondaryL,
       accentL         |-> accentL,
       goodL           |-> 550000 + MulQ[briMod, 300000],
       warnL           |-> 650000 + MulQ[briMod, 300000],
       badL            |-> 520000 + MulQ[briMod, 300000],
       darkBgL         |-> darkBgL(briMod),
       darkCardL       |-> darkCardL,
       darkCard2L      |-> darkCardL + 30000,
       darkTextL       |-> darkTextL(briMod),
       darkTextMutedL  |-> 620000,
       darkBorderL     |-> 250000,
       darkPrimaryL    |-> primaryL + 80000,
       darkSecondaryL  |-> secondaryL + 60000,
       darkAccentL     |-> accentL + 100000]

\* The colours of the light theme as they are passed to clampToSRGBGamut.
lightColorsStatusOnHarmony(hues, at, baseChroma) ==
  [primary   |-> [L |-> at.primaryL, C |-> baseChroma, H |-> hues[1]],
   secondary |-> [L |-> at.secondaryL, C |-> MulQ[baseChroma, 850000], H |-> hues[2]],
   accent    |-> [L |-> at.accentL, C |-> MulQ[baseChroma, 1100000], H |-> hues[3]],
   good      |-> [L |-> at.goodL, C |-> MulQ[baseChroma, 900000], H |-> hues[1]],
   warn      |-> [L |-> at.warnL, C |-> MulQ[baseChroma, 850000], H |-> hues[2]],
   bad       |-> [L |-> at.badL, C |-> MulQ[baseChroma, 950000], H |-> hues[3]],
   bg        |-> [L |-> at.lightBgL, C |-> 5000, H |-> hues[1]],
   card      |-> [L |-> at.lightCardL, C |-> 6000, H |-> hues[1]],
   card2     |-> [L |-> at.lightCard2L, C |-> 7000, H |-> hues[1]],
   text      |-> [L |-> at.lightTextL, C |-> 10000, H |-> hues[1]],
   textMuted |-> [L |-> at.lightTextMutedL, C |-> 7500, H |-> hues[1]],
   border    |-> [L |-> at.lightBorderL, C |-> 10000, H |-> hues[1]]]

lightColors(hues, at, baseChroma) ==
  LET neutralC == 5000
  IN  [primary   |-> [L |-> at.primaryL, C |-> baseChroma, H |-> hues[1]],
       secondary |-> [L |-> at.secondaryL, C |-> MulQ[baseChroma, 850000], H |-> hues[2]],
       accent    |-> [L |-> at.accentL, C |-> MulQ[baseChroma, 1100000], H |-> hues[3]],
       good      |-> [L |-> at.goodL, C |-> MulQ[baseChroma, 900000], H |-> 145 * HueQ],
       warn      |-> [L |-> at.warnL, C |-> MulQ[baseChroma, 850000], H |-> 85 * HueQ],
       bad       |-> [L |-> at.badL, C |-> MulQ[baseChroma, 950000], H |-> 25 * HueQ],
       bg        |-> [L |-> at.lightBgL, C |-> neutralC, H |-> hues[1]],
       card      |-> [L |-> at.lightCardL, C |-> MulQ[neutralC, 1200000], H |-> hues[1]],
       card2     |-> [L |-> at.lightCard2L, C |-> MulQ[neutralC, 1400000], H |-> hues[1]],
       text      |-> [L |-> at.lightTextL, C |-> neutralC * 2, H |-> hues[1]],
       textMuted |-> [L |-> at.lightTextMutedL, C |-> MulQ[neutralC, 1500000], H |-> hues[1]],
       border    |-> [L |-> at.lightBorderL, C |-> neutralC * 2, H |-> hues[1]]]

\* The colours of the dark theme as they are passed to clampToSRGBGamut.
darkColorsShiftedHues(hues, at, baseChroma) ==
  [primary   |-> [L |-> at.darkPrimaryL, C |-> MulQ[baseChroma, 900000], H |-> hues[2]],
   secondary |-> [L |-> at.darkSecondaryL, C |-> MulQ[baseChroma, 800000], H |-> hues[3]],
   accent    |-> [L |-> at.darkAccentL, C |-> baseChroma, H |-> hues[1]],
   good      |-> [L |-> at.goodL + 60000, C |-> MulQ[baseChroma, 850000], H |-> 145 * HueQ],
   warn      |-> [L |-> at.warnL + 60000, C |-> MulQ[baseChroma, 800000], H |-> 85 * HueQ],
   bad       |-> [L |-> at.badL + 80000, C |-> MulQ[baseChroma, 900000], H |-> 25 * HueQ],
   bg        |-> [L |-> at.darkBgL, C |-> 8000, H |-> hues[1]],
   card      |-> [L |-> at.darkCardL, C |-> 10400, H |-> hues[1]],
   card2     |-> [L |-> at.darkCard2L, C |-> 12000, H |-> hues[1]],
   text      |-> [L |-> at.darkTextL, C |-> 8000, H |-> hues[1]],
   textMuted |-> [L |-> at.darkTextMutedL, C |-> 9600, H |-> hues[1]],
   border    |-> [L |-> at.darkBorderL, C |-> 16000, H |-> hues[1]]]

darkColors(hues, at, baseChroma) ==
  LET darkNeutralC == 8000
  IN  [primary   |-> [L |-> at.darkPrimaryL, C |-> MulQ[baseChroma, 900000], H |-> hues[1]],
       secondary |-> [L |-> at.darkSecondaryL, C |-> MulQ[baseChroma, 800000], H |-> hues[2]],
       accent    |-> [L |-> at.darkAccentL, C |-> baseChroma, H |-> hues[3]],
       good      |-> [L |-> at.goodL + 60000, C |-> MulQ[baseChroma, 850000], H |-> 145 * HueQ],
       warn      |-> [L |-> at.warnL + 60000, C |-> MulQ[baseChroma, 800000], H |-> 85 * HueQ],
       bad       |-> [L |-> at.badL + 80000, C |-> MulQ[baseChroma, 900000], H |-> 25 * HueQ],
       bg        |-> [L |-> at.darkBgL, C |-> darkNeutralC, H |-> hues[1]],
       card      |-> [L |-> at.darkCardL, C |-> MulQ[darkNeutralC, 1300000], H |-> hues[1]],
       card2     |-> [L |-> at.darkCard2L, C |-> MulQ[darkNeutralC, 1500000], H |-> hues[1]],
       text      |-> [L |-> at.darkTextL, C |-> darkNeutralC, H |-> hues[1]],
       textMuted |-> [L |-> at.darkTextMutedL, C |-> MulQ[darkNeutralC, 1200000], H |-> hues[1]],
       border    |-> [L |-> at.darkBorderL, C |-> darkNeutralC * 2, H |-> hues[1]]]

\* What a call computes before it maps any colour into the gamut: the
\* anchors, baseChroma, the hues, and the colours it passes to
\* clampToSRGBGamut for each theme.
themePlan(mode, baseColor, saturationLevel, contrastLevel, brightnessLevel, entropy) ==
  LET picked == pickHarmony(mode, baseColor, entropy)
      plan(hues, at, baseChroma) ==
        [hues |-> hues, anchors |-> at, baseChroma |-> baseChroma,
         light |-> lightColors(hues, at, baseChroma),
         dark  |-> darkColors(hues, at, baseChroma)]
  IN  plan(harmonyHues(picked.harmonyMode, picked.baseHue),
           lightnessAnchors(contrastLevel, brightnessLevel),
           baseChromaOf(saturationLevel))

\* The rest of generateTheme once the harmony mode and the base hue are
\* known: hues, anchors, colours, tokens and the result.
themesFrom(harmonyMode, baseHue, baseColor, saturationLevel, contrastLevel, brightnessLevel) ==
  LET themes(hues, at, baseChroma) ==
        [light |-> ThemeTokens(lightColors(hues, at, baseChroma)),
         dark  |-> ThemeTokens(darkColors(hues, at, baseChroma)),
         seed  |-> resultSeed(baseColor, baseHue),
         mode  |-> harmonyMode]
  IN  themes(harmonyHues(harmonyMode, baseHue),
             lightnessAnchors(contrastLevel, brightnessLevel),
             baseChromaOf(saturationLevel))

generateTheme(mode, baseColor, saturationLevel, contrastLevel, brightnessLevel, entropy) ==
  LET picked == pickHarmony(mode, baseColor, entropy)
      resolved(harmonyMode, baseHue) ==
        themesFrom(harmonyMode, baseHue, baseColor,
                   saturationLevel, contrastLevel, brightnessLevel)
  IN  resolved(picked.harmonyMode, picked.baseHue)

(***************************************************************************)
(* Rate limiting                                                           *)
(***************************************************************************)
\* The handler's call is rateLimit(req, 10, 60000).
RateLimitMax == 10
RateLimitWindowMs == 60000

\* req.forwarded is the x-forwarded-for header split at ',' and trimmed, <<>>
\* when the header is absent or empty.
getClientIP(req) == IF Len(req.forwarded) > 0 THEN req.forwarded[1] ELSE "unknown"

\* Math.ceil(n / d)
Ceil(n, d) == 0 - ((0 - n) \div d)

\* rateLimit with the count compared by <= instead of <.
rateLimitInclusive(store, req, max, windowMs, now) ==
  LET ip == getClientIP(req)
  IN  IF ip \notin DOMAIN store \/ now > store[ip].resetTime
      THEN [store  |-> [k \in DOMAIN store \cup {ip} |->
                          IF k = ip THEN [count |-> 1, resetTime |-> now + windowMs]
                          ELSE store[k]],
            result |-> [success |-> TRUE]]
      ELSE IF store[ip].count <= max
      THEN [store  |-> [store EXCEPT ![ip].count = @ + 1],
            result |-> [success |-> TRUE]]
      ELSE [store  |-> store,
            result |-> [success |-> FALSE,
                        retryAfter |-> Ceil(store[ip].resetTime - now, 1000)]]

\* rateLimit with a window that is never replaced once it exists.
rateLimitKeepsWindow(store, req, max, windowMs, now) ==
  LET ip == getClientIP(req)
  IN  IF ip \notin DOMAIN store
      THEN [store  |-> [k \in DOMAIN store \cup {ip} |->
                          IF k = ip THEN [count |-> 1, resetTime |-> now + windowMs]
                          ELSE store[k]],
            result |-> [success |-> TRUE]]
      ELSE IF store[ip].count < max
      THEN [store  |-> [store EXCEPT ![ip].count = @ + 1],
            result |-> [success |-> TRUE]]
      ELSE [store  |-> store,
            result |-> [success |-> FALSE,
                        retryAfter |-> Ceil(store[ip].resetTime - now, 1000)]]

\* rateLimit with a rejected request starting the window again.
rateLimitRestartsWindow(store, req, max, windowMs, now) ==
  LET ip == getClientIP(req)
  IN  IF ip \notin DOMAIN store \/ now > store[ip].resetTime
      THEN [store  |-> [k \in DOMAIN store \cup {ip} |->
                          IF k = ip THEN [count |-> 1, resetTime |-> now + windowMs]
                          ELSE store[k]],
            result |-> [success |-> TRUE]]
      ELSE IF store[ip].count < max
      THEN [store  |-> [store EXCEPT ![ip].count = @ + 1],
            result |-> [success |-> TRUE]]
      ELSE [store  |-> [store EXCEPT ![ip].resetTime = now + windowMs],
            result |-> [success |-> FALSE,
                        retryAfter |-> Ceil(store[ip].resetTime - now, 1000)]]

\* rateLimit on the store found and the Date.now() read: the store left and
\* the result returned.  The body has no await, so it runs in one step.
rateLimit(store, req, max, windowMs, now) ==
  LET ip == getClientIP(req)
  IN  IF ip \notin DOMAIN store \/ now > store[ip].resetTime
      THEN [store  |-> [k \in DOMAIN store \cup {ip} |->
                          IF k = ip THEN [count |-> 1, resetTime |-> now + windowMs]
                          ELSE store[k]],
            result |-> [success |-> TRUE]]
      ELSE IF store[ip].count < max
      THEN [store  |-> [store EXCEPT ![ip].count = @ + 1],
            result |-> [success |-> TRUE]]
      ELSE [store  |-> store,
            result |-> [success |-> FALSE,
                        retryAfter |-> Ceil(store[ip].resetTime - now, 1000)]]

(***************************************************************************)
(* The rate limiter of utils/rate-limit.ts                                 *)
(***************************************************************************)
\* getClientIdentifier: the first address of x-forwarded-for, trimmed; the
\* requests of the model carry no x-real-ip, so 'unknown' otherwise.
getClientIdentifier(req) == IF Len(req.forwarded) > 0 THEN req.forwarded[1] ELSE "unknown"

\* A cleanup that deletes every entry, expired or not.
cleanupAllEntries(store, now) == [key \in {} |-> store[key]]

\* cleanupExpiredEntries(now): the store without the entries with
\* now > resetTime.
cleanupExpiredEntries(store, now) ==
  [key \in {k \in DOMAIN store : ~(now > store[k].resetTime)} |-> store[key]]

\* rateLimit of utils/rate-limit.ts on the store found and the Date.now()
\* read; cleanup tells whether Math.random() < 0.01 held.  entry is read
\* before the cleanup, and written back by set() in the two admitting
\* branches.
utilRateLimit(store, req, maxRequests, windowMs, now, cleanup) ==
  LET identifier == getClientIdentifier(req)
      found   == identifier \in DOMAIN store
      entry   == store[identifier]
      cleaned == IF cleanup THEN cleanupExpiredEntries(store, now) ELSE store
      set(value) == [k \in DOMAIN cleaned \cup {identifier} |->
                      IF k = identifier THEN value ELSE cleaned[k]]
  IN  IF ~found
      THEN [store  |-> set([count |-> 1, resetTime |-> now + windowMs]),
            result |-> [success |-> TRUE]]
      ELSE IF now > entry.resetTime
      THEN [store  |-> set([count |-> 1, resetTime |-> now + windowMs]),
            result |-> [success |-> TRUE]]
      ELSE IF entry.count < maxRequests
      THEN [store  |-> set([entry EXCEPT !.count = @ + 1]),
            result |-> [success |-> TRUE]]
      ELSE [store  |-> cleaned,
            result |-> [success |-> FALSE,
                        retryAfter |-> Ceil(entry.resetTime - now, 1000)]]

(***************************************************************************)
(* API handler                                                             *)
(*                                                                         *)
(* A JSON value of the request body is a record tagged with its typeof;    *)
(* baseColor is a string or undefined.                                     *)
(***************************************************************************)
Missing == [type |-> "undefined"]
Num(n) == [type |-> "number", val |-> n]
Str(str) == [type |-> "string", val |-> str]

\* const { style = 'random', ... } = req.body || {}: a default replaces undefined.
withDefault(field, default) == IF field = Missing THEN default ELSE field

validStyles ==
  <<"monochrome", "analogous", "complementary", "split-complementary",
    "triadic", "tetradic", "compound", "triadic-split", "random">>

includes(list, style) == style.type = "string" /\ \E i \in 1..Len(list) : list[i] = style.val

checkRange(val) == val.type = "number" /\ val.val >= -5 /\ val.val <= 5

\* /^#[0-9A-F]{6}$/i.test(str)
testHexColor(str) == Len(str) = 7 /\ str[1] = "#" /\ \A i \in 2..7 : IsHexDigit(str[i])

getPhilosophy(style) ==
  CASE style = "monochrome" -> "Unity and simplicity through variations of a single hue."
    [] style = "analogous" -> "Harmony found in nature by choosing neighboring colors on the wheel."
    [] style = "complementary" -> "High-energy contrast by pairing opposites for maximum impact."
    [] style = "split-complementary" -> "Visual variety with less tension than a direct complement."
    [] style = "triadic" -> "A vibrant, balanced triangle of color for a bold UI."
    [] style = "tetradic" -> "Rich and complex harmony using four colors in two complementary pairs."
    [] style = "compound" -> "Balanced sophistication using multiple contrasting and adjacent hues."
    [] style = "triadic-split" -> "A wide, dynamic palette for complex design systems."
    [] OTHER -> "Embracing spontaneity and the natural flow of creative energy."

\* The body checks with the base colour tested first.
validateColorFirst(body) ==
  LET style      == withDefault(body.style, Str("random"))
      saturation == withDefault(body.saturation, Num(0))
      contrast   == withDefault(body.contrast, Num(0))
      brightness == withDefault(body.brightness, Num(0))
  IN  IF Truthy(body.baseColor) /\ ~testHexColor(body.baseColor)
      THEN "INVALID_BASE_COLOR"
      ELSE IF ~includes(validStyles, style) THEN "INVALID_STYLE"
      ELSE IF ~checkRange(saturation) \/ ~checkRange(contrast) \/ ~checkRange(brightness)
      THEN "INVALID_PARAMETERS"
      ELSE ""

\* The body checks of the handler in their order: the code of the first one
\* that fails, "" when all pass.
validate(body) ==
  LET style      == withDefault(body.style, Str("random"))
      saturation == withDefault(body.saturation, Num(0))
      contrast   == withDefault(body.contrast, Num(0))
      brightness == withDefault(body.brightness, Num(0))
  IN  IF ~includes(validStyles, style) THEN "INVALID_STYLE"
      ELSE IF ~checkRange(saturation) \/ ~checkRange(contrast) \/ ~checkRange(brightness)
      THEN "INVALID_PARAMETERS"
      ELSE IF Truthy(body.baseColor) /\ ~testHexColor(body.baseColor)
      THEN "INVALID_BASE_COLOR"
      ELSE ""

errorMessage(code) ==
  CASE code = "INVALID_STYLE" ->
         "Invalid style. Must be one of: monochrome, analogous, complementary, split-complementary, triadic, tetradic, compound, triadic-split, random"
    [] code = "INVALID_PARAMETERS" ->
         "Parameters saturation, contrast, and brightness must be numbers between -5 and 5."
    [] code = "INVALID_BASE_COLOR" ->
         "Invalid baseColor format. Must be a hex color (e.g., #FF5733)"

\* The arguments the handler passes to generateTheme for a body that passed
\* the checks.
engineArgs(body) ==
  [mode            |-> withDefault(body.style, Str("random")).val,
   baseColor       |-> body.baseColor,
   saturationLevel |-> withDefault(body.saturation, Num(0)).val,
   contrastLevel   |-> withDefault(body.contrast, Num(0)).val,
   brightnessLevel |-> withDefault(body.brightness, Num(0)).val]

(***************************************************************************)
(* The calls and requests of the model                                     *)
(***************************************************************************)
\* Bounds: the invocations that may be suspended at the await of the handler
\* at once, and the rate-limit windows the clock may run through.
MaxPending == 2
MaxWindows == 2

HexBlue      == <<"#", "3", "B", "8", "2", "F", "6">>
HexOrange    == <<"#", "f", "f", "5", "7", "3", "3">>
HexShort     == <<"#", "F", "F", "F">>
HexNoHash    == <<"3", "B", "8", "2", "F", "6">>
HexBadDigit  == <<"#", "1", "2", "3", "4", "5", "G">>

\* Base colours: absent, empty, well formed in either case, and malformed.
BaseColors == {undefined, <<>>, HexBlue, HexOrange, HexShort, HexNoHash, HexBadDigit}

\* Two values of `${Date.now()}-${Math.random()}`.
EntropyStrings ==
  {<<"1", "7", "0", "0", "0", "0", "0", "0", "0", "0", "0", "0", "0", "-", "0", ".", "7", "5">>,
   <<"1", "7", "0", "0", "0", "0", "0", "0", "0", "0", "0", "0", "1", "-", "0", ".", "2", "5">>}

\* <<saturationLevel, contrastLevel, brightnessLevel>>
LevelTriples == {<<5, 5, 5>>, <<-5, -5, -5>>, <<3, -5, 0>>}

Args(mode, baseColor, levels) ==
  [mode            |-> mode,
   baseColor       |-> baseColor,
   saturationLevel |-> levels[1],
   contrastLevel   |-> levels[2],
   brightnessLevel |-> levels[3]]

\* The calls of generateTheme: every mode on one colour, two modes on every
\* base colour, two base colours on several level triples, without a base
\* colour the modes "random" resolves to on the entropy strings, and two
\* calls that differ from another in mode, base colour and contrast only and
\* from each other by one step of brightness.
EngineRequests ==
  {Args(m, HexBlue, <<0, 0, 0>>) : m \in GenerationMode}
    \cup {Args(m, c, <<0, 0, 0>>) : m \in {"random", "triadic"}, c \in BaseColors}
    \cup {Args("random", c, l) : c \in {undefined, HexBlue}, l \in LevelTriples}
    \cup {Args(m, undefined, <<0, 0, 0>>) : m \in {"complementary", "split-complementary"}}
    \cup {Args("analogous", HexOrange, <<0, 4, b>>) : b \in {0, 1}}

\* generateTheme on the calls of the model, computed once.
\* (@@ makes the function an explicit table of its values.)
Themes ==
  [k \in EngineRequests \X EntropyStrings |->
     generateTheme(k[1].mode, k[1].baseColor, k[1].saturationLevel,
                   k[1].contrastLevel, k[1].brightnessLevel, k[2])] @@ <<>>

\* What generateTheme computes before the gamut mapping, on the same calls.
Plans ==
  [k \in EngineRequests \X EntropyStrings |->
     themePlan(k[1].mode, k[1].baseColor, k[1].saturationLevel,
               k[1].contrastLevel, k[1].brightnessLevel, k[2])] @@ <<>>

BodyOf(a) ==
  [style      |-> Str(a.mode),
   baseColor  |-> a.baseColor,
   saturation |-> Num(a.saturationLevel),
   contrast   |-> Num(a.contrastLevel),
   brightness |-> Num(a.brightnessLevel)]

\* req.body absent, or {}.
EmptyBody ==
  [style |-> Missing, baseColor |-> undefined, saturation |-> Missing,
   contrast |-> Missing, brightness |-> Missing]

TriadicBody == BodyOf(Args("triadic", HexBlue, <<0, 0, 0>>))

\* Bodies that fail one check or several.
InvalidBodies ==
  {[TriadicBody EXCEPT !.style = Str("neon")],
   [TriadicBody EXCEPT !.style = Num(3)],
   [TriadicBody EXCEPT !.style = Str("neon"), !.saturation = Num(9), !.baseColor = HexShort],
   [TriadicBody EXCEPT !.saturation = Num(6)],
   [TriadicBody EXCEPT !.contrast = Str("3")],
   [TriadicBody EXCEPT !.brightness = Num(-6), !.baseColor = HexBadDigit],
   [EmptyBody EXCEPT !.baseColor = HexNoHash]}

Bodies == {BodyOf(a) : a \in EngineRequests} \cup {EmptyBody} \cup InvalidBodies

Request(method, forwarded, body) == [method |-> method, forwarded |-> forwarded, body |-> body]

AddressA == "203.0.113.7"
AddressB == "198.51.100.2"
Addresses == {AddressA, AddressB, "unknown"}

\* Requests of two clients, the second behind the first as a proxy, under
\* concurrent handling.
Requests ==
  {Request(m, f, b) : m \in {"OPTIONS", "GET", "POST"},
                      f \in {<<AddressA>>, <<AddressB, AddressA>>},
                      b \in {TriadicBody, [TriadicBody EXCEPT !.style = Str("neon")]}}

\* POST requests of every body of the model and requests of other methods,
\* from a client without the header.
ApiRequests ==
  {Request("POST", <<>>, b) : b \in Bodies}
    \cup {Request(m, <<>>, b) : m \in {"OPTIONS", "GET", "PUT"},
                                b \in {TriadicBody, [TriadicBody EXCEPT !.style = Str("neon")]}}

\* POST requests of two clients, for the timing of the limiter.
LimiterRequests == {Request("POST", f, TriadicBody) : f \in {<<AddressA>>, <<AddressB>>}}

\* The instants at which a window opens when the one before has just run out.
Instants == {w * (RateLimitWindowMs + 1) : w \in 0..(MaxWindows - 1)}

\* The first instant, the last instant of the window opened at the first, and
\* the instant after.
LimiterInstants == {0, RateLimitWindowMs, RateLimitWindowMs + 1}

(***************************************************************************)
(* The handler, in the two steps its await divides it into                 *)
(***************************************************************************)
errorJson(error, code) == [success |-> FALSE, error |-> error, code |-> code]

\* handler with the body validated before the rate limit is applied.
handlerEnterValidateFirst(store, req, now) ==
  IF req.method = "OPTIONS"
  THEN [store |-> store, done |-> TRUE, limited |-> FALSE,
        response |-> [status |-> 200, json |-> [ended |-> TRUE]]]
  ELSE IF req.method # "POST"
  THEN [store |-> store, done |-> TRUE, limited |-> FALSE,
        response |-> [status |-> 405,
                      json |-> errorJson("Method not allowed. Use POST.", "METHOD_NOT_ALLOWED")]]
  ELSE IF validate(req.body) # ""
  THEN [store |-> store, done |-> TRUE, limited |-> FALSE,
        response |-> [status |-> 400,
                      json |-> errorJson(errorMessage(validate(req.body)), validate(req.body))]]
  ELSE LET limit == rateLimit(store, req, RateLimitMax, RateLimitWindowMs, now)
       IN  [store |-> limit.store, done |-> FALSE, limited |-> TRUE,
            rateLimitResult |-> limit.result]

\* handler up to `await rateLimit(req, 10, 60000)`: the store left, and either
\* the response (done) or the result the invocation resumes with.  limited
\* tells whether rateLimit was called.
handlerEnter(store, req, now) ==
  IF req.method = "OPTIONS"
  THEN [store |-> store, done |-> TRUE, limited |-> FALSE,
        response |-> [status |-> 200, json |-> [ended |-> TRUE]]]
  ELSE IF req.method # "POST"
  THEN [store |-> store, done |-> TRUE, limited |-> FALSE,
        response |-> [status |-> 405,
                      json |-> errorJson("Method not allowed. Use POST.", "METHOD_NOT_ALLOWED")]]
  ELSE LET limit == rateLimit(store, req, RateLimitMax, RateLimitWindowMs, now)
       IN  [store |-> limit.store, done |-> FALSE, limited |-> TRUE,
            rateLimitResult |-> limit.result]

\* handler after the await: the response, and the calls of generateTheme made.
handlerResume(req, rateLimitResult, entropy, now) ==
  LET code == validate(req.body)
      args == engineArgs(req.body)
      ok(result) ==
        [status |-> 200,
         json |-> [success |-> TRUE,
                   light |-> result.light,
                   dark |-> result.dark,
                   metadata |-> [style |-> result.mode,
                                 seed |-> result.seed,
                                 timestamp |-> now,
                                 colorSpace |-> "OKLCH",
                                 philosophy |-> getPhilosophy(result.mode)]]]
  IN  IF ~rateLimitResult.success
      THEN [called |-> <<>>,
            response |-> [status |-> 429,
                          json |-> [success |-> FALSE,
                                    error |-> "Rate limit exceeded. Please try again later.",
                                    code |-> "RATE_LIMIT_EXCEEDED",
                                    retryAfter |-> rateLimitResult.retryAfter]]]
      ELSE IF code # ""
      THEN [called |-> <<>>,
            response |-> [status |-> 400, json |-> errorJson(errorMessage(code), code)]]
      ELSE [called |-> <<args>>, response |-> ok(Themes[<<args, entropy>>])]

(***************************************************************************)
(* State                                                                   *)
(***************************************************************************)
VARIABLES
  rateLimitStore,  \* the Map from client IP to {count, resetTime}
  clock,           \* Date.now()
  suspended,       \* the handler invocations waiting at the await, in order of arrival
  sent,            \* the exchange completed by the last step, if it completed one
  lastLimit,       \* the call of rateLimit made by the last step, if it made one
  admitLog,        \* per client, the times of its admitted requests of the last windowMs
  retryDue,        \* per client, the time its last request, if rejected, told it to wait for
  engineCall,      \* the last direct call of generateTheme
  enginePrev,      \* the direct call before it
  clampRun,        \* the call of clampToSRGBGamut under way: its position and its locals
  helperCall,      \* the last direct call of a helper function
  workers,         \* per worker, the invocation of generateTheme it runs: position and locals
  utilStore,       \* the Map of utils/rate-limit.ts, from identifier to {count, resetTime}
  lastPair         \* the last request given to both rate limiters, and their answers

vars ==
  <<rateLimitStore, clock, suspended, sent, lastLimit, admitLog, retryDue,
    engineCall, enginePrev, clampRun, helperCall, workers, utilStore, lastPair>>

serverVars == <<rateLimitStore, clock, suspended, sent, lastLimit, admitLog, retryDue>>
engineVars == <<engineCall, enginePrev>>
limiterVars == <<utilStore, lastPair>>

NoExchange == [made |-> FALSE]
NoLimit == [made |-> FALSE]
NoCall == [made |-> FALSE]
NoDue == {}
NoRun == [pc |-> "idle"]

\* The workers that run generateTheme side by side.
MaxWorkers == 2
Workers == 1..MaxWorkers

\* A worker that runs no invocation.
NoInvocation ==
  [pc |-> "idle", args |-> NoCall, entropy |-> <<>>, rng |-> <<0, 0>>,
   harmonyMode |-> "", baseHue |-> 0, result |-> NoCall, interleaved |-> FALSE]

Init ==
  /\ rateLimitStore = [ip \in {} |-> [count |-> 0, resetTime |-> 0]]
  /\ clock = 0
  /\ suspended = <<>>
  /\ sent = NoExchange
  /\ lastLimit = NoLimit
  /\ admitLog = [ip \in Addresses |-> <<>>]
  /\ retryDue = [ip \in Addresses |-> NoDue]
  /\ engineCall = NoCall
  /\ enginePrev = NoCall
  /\ clampRun = NoRun
  /\ helperCall = NoCall
  /\ workers = [w \in Workers |-> NoInvocation]
  /\ utilStore = [ip \in {} |-> [count |-> 0, resetTime |-> 0]]
  /\ lastPair = NoCall

RemoveAt(seq, i) == SubSeq(seq, 1, i - 1) \o SubSeq(seq, i + 1, Len(seq))

\* A request arrives and its handler runs to the await or to its response.
Receive(req, maxPending) ==
  LET entered == handlerEnter(rateLimitStore, req, clock)
      ip      == getClientIP(req)
      charged == entered.store # rateLimitStore
  IN  /\ entered.done \/ Len(suspended) < maxPending
      /\ rateLimitStore' = entered.store
      /\ IF entered.done
         THEN /\ sent' = [made |-> TRUE, request |-> req, limited |-> entered.limited,
                          charged |-> charged, called |-> <<>>,
                          response |-> entered.response]
              /\ UNCHANGED suspended
         ELSE /\ sent' = NoExchange
              /\ suspended' = Append(suspended,
                                     [request |-> req,
                                      rateLimitResult |-> entered.rateLimitResult,
                                      charged |-> charged])
      /\ IF entered.limited
         THEN /\ lastLimit' = [made |-> TRUE, ip |-> ip, at |-> clock,
                               result |-> entered.rateLimitResult, due |-> retryDue[ip]]
              /\ admitLog' = IF entered.rateLimitResult.success
                             THEN [admitLog EXCEPT ![ip] = Append(@, clock)]
                             ELSE admitLog
              /\ retryDue' = [retryDue EXCEPT ![ip] =
                                IF entered.rateLimitResult.success THEN NoDue
                                ELSE {clock + 1000 * entered.rateLimitResult.retryAfter}]
         ELSE /\ lastLimit' = NoLimit
              /\ UNCHANGED <<admitLog, retryDue>>
      /\ UNCHANGED <<clock, engineCall, enginePrev, clampRun, helperCall, workers, limiterVars>>

\* The i-th suspended invocation resumes and answers.
Resume(i, entropy) ==
  LET invocation == suspended[i]
      answered   == handlerResume(invocation.request, invocation.rateLimitResult, entropy, clock)
  IN  /\ sent' = [made |-> TRUE, request |-> invocation.request, limited |-> TRUE,
                  charged |-> invocation.charged, called |-> answered.called,
                  response |-> answered.response]
      /\ suspended' = RemoveAt(suspended, i)
      /\ lastLimit' = NoLimit
      /\ UNCHANGED <<rateLimitStore, clock, admitLog, retryDue, engineCall, enginePrev,
                     clampRun, helperCall, workers, limiterVars>>

\* Time passes to a later instant.
Tick(t) ==
  /\ t > clock
  /\ clock' = t
  /\ admitLog' = [ip \in Addresses |->
                    SelectSeq(admitLog[ip], LAMBDA at : at >= t - RateLimitWindowMs)]
  /\ sent' = NoExchange
  /\ lastLimit' = NoLimit
  /\ UNCHANGED <<rateLimitStore, suspended, retryDue, engineCall, enginePrev,
                 clampRun, helperCall, workers, limiterVars>>

\* generateTheme is called directly.
Generate(args, entropy) ==
  /\ enginePrev' = engineCall
  /\ engineCall' = [made |-> TRUE, args |-> args, entropy |-> entropy,
                    result |-> Themes[<<args, entropy>>]]
  /\ UNCHANGED <<serverVars, clampRun, helperCall, workers, limiterVars>>

\* Colours passed to clampToSRGBGamut: chroma in and out of gamut, zero,
\* negative and far too large, and lightness and hue out of range.
ClampColors ==
  {[L |-> 500000, C |-> c, H |-> 145000] :
     c \in {-100000, 0, 150000, 400000, 1000000, 2000000}}
    \cup {[L |-> 0, C |-> 100000, H |-> 0],
          [L |-> 1200000, C |-> 100000, H |-> 0],
          [L |-> 900000, C |-> 370000, H |-> 359999],
          [L |-> -100000, C |-> -370000, H |-> 400000]}

\* clampToSRGBGamut is called.
ClampEnter(color) ==
  /\ clampRun.pc \in {"idle", "returned"}
  /\ clampRun' = [pc |-> "loop"] @@ clampEntry(color)
  /\ UNCHANGED <<serverVars, engineVars, helperCall, workers, limiterVars>>

\* The loop condition holds and the body runs once.
ClampIterate ==
  /\ clampRun.pc = "loop"
  /\ loopCondition(clampRun)
  /\ clampRun' = clampPass(clampRun)
  /\ UNCHANGED <<serverVars, engineVars, helperCall, workers, limiterVars>>

\* The loop condition fails and result is returned.
ClampReturn ==
  /\ clampRun.pc = "loop"
  /\ ~loopCondition(clampRun)
  /\ clampRun' = [clampRun EXCEPT !.pc = "returned"]
  /\ UNCHANGED <<serverVars, engineVars, helperCall, workers, limiterVars>>

\* The server under concurrent requests.
Next ==
  \/ \E req \in Requests : Receive(req, MaxPending)
  \/ \E i \in 1..Len(suspended), entropy \in EntropyStrings : Resume(i, entropy)
  \/ \E t \in Instants : Tick(t)

Spec == Init /\ [][Next]_vars

\* The server answering one request at a time, on every body of the model.
NextApi ==
  \/ \E req \in ApiRequests : Receive(req, 1)
  \/ \E i \in 1..Len(suspended), entropy \in EntropyStrings : Resume(i, entropy)
  \/ \E t \in Instants : Tick(t)

SpecApi == Init /\ [][NextApi]_vars

\* The limiter under POST requests around the end of a window.
NextLimiter ==
  \/ \E req \in LimiterRequests : Receive(req, 1)
  \/ \E i \in 1..Len(suspended), entropy \in EntropyStrings : Resume(i, entropy)
  \/ \E t \in LimiterInstants : Tick(t)

SpecLimiter == Init /\ [][NextLimiter]_vars

\* The engine called directly.
NextEngine == \E args \in EngineRequests, entropy \in EntropyStrings : Generate(args, entropy)

SpecEngine == Init /\ [][NextEngine]_vars

\* Two hex digits of a channel.
ChannelDigits ==
  {<<"0", "0">>, <<"f", "f">>, <<"F", "F">>, <<"3", "B">>, <<"7", "5">>, <<"7", "6">>}

\* Strings hexToRgb reads as a colour, with and without '#'.
ColourStrings ==
  {pre \o r \o g \o b : pre \in {<<>>, <<"#">>}, r \in ChannelDigits,
                        g \in ChannelDigits, b \in ChannelDigits}

\* Strings it does not: the argument absent, empty, three digits, five,
\* seven, a letter past f, '#' doubled, trailing and leading characters.
MalformedStrings ==
  {undefined, <<>>, <<"#">>, HexShort, <<"F", "F", "F">>, HexBadDigit,
   <<"#", "1", "2", "3", "4", "5">>, <<"#", "1", "2", "3", "4", "5", "6", "7">>,
   <<"#", "#", "1", "2", "3", "4", "5", "6">>, <<"3", "B", "8", "2", "F", "6", "#">>,
   <<" ", "#", "3", "B", "8", "2", "F", "6">>, <<"0", "x", "3", "B", "8", "2", "F", "6">>}

\* hexToRgb is called directly.
CallHexToRgb(hex) ==
  /\ helperCall' = [made |-> TRUE, fn |-> "hexToRgb", arg |-> hex, result |-> hexToRgb(hex)]
  /\ UNCHANGED <<serverVars, engineVars, clampRun, workers, limiterVars>>

\* selectForeground is called directly.
CallSelectForeground(bgHex) ==
  /\ helperCall' = [made |-> TRUE, fn |-> "selectForeground", arg |-> bgHex,
                    result |-> selectForeground(bgHex)]
  /\ UNCHANGED <<serverVars, engineVars, clampRun, workers, limiterVars>>

\* Base hues as doubles: toOklch('#3B82F6').H and toOklch('#ff5733').H with
\* the doubles next to them, whole and half degrees, and the doubles just
\* below 330 and 360 and just above 145.
BaseHueDoubles ==
  {<<259, 13665030, 16257776>>, <<259, 13665030, 16257792>>, <<259, 13665030, 16257760>>,
   <<33, 11603761, 6933420>>, <<33, 11603761, 6933422>>, <<33, 11603761, 6933418>>,
   <<0, 0, 0>>, <<30, 0, 0>>, <<180, 0, 0>>, <<200, 4194304, 0>>, <<16, 8388608, 0>>,
   <<359, 16777215, 16777200>>, <<329, 16777215, 16777200>>, <<145, 0, 8>>,
   <<29, 16777215, 16777215>>, <<14, 16777215, 16777215>>}

\* The hues of a harmony mode are resolved from a base hue.
CallResolveHues(mode, baseHue) ==
  /\ helperCall' = [made |-> TRUE, fn |-> "hues", arg |-> [mode |-> mode, baseHue |-> baseHue],
                    result |-> resolveHuesDouble(baseHue, HARMONY_MODES[mode])]
  /\ UNCHANGED <<serverVars, engineVars, clampRun, workers, limiterVars>>

\* Channel values at both ends, next to the linear part of the transfer
\* curve (10, 11) and in between.
RoundTripChannels == {0, 1, 10, 11, 128, 254, 255}

\* Well-formed colours on those channels, and three in capitals or without '#'.
RoundTripColours ==
  {rgbToHex(r, g, b) : r \in RoundTripChannels, g \in RoundTripChannels,
                       b \in RoundTripChannels}
    \cup {HexBlue, HexOrange, HexNoHash}

\* toHex(toOklch(hex)) is called directly.
CallRoundTrip(hex) ==
  /\ helperCall' = [made |-> TRUE, fn |-> "roundTrip", arg |-> hex,
                    result |-> toHex[toOklch[hex]]]
  /\ UNCHANGED <<serverVars, engineVars, clampRun, workers, limiterVars>>

\* The levels the handler admits, on whole numbers.
Levels == -5..5

\* The lines of generateTheme that compute the lightness anchors run on a
\* contrastLevel and a brightnessLevel.
ComputeAnchors(contrastLevel, brightnessLevel) ==
  /\ helperCall' = [made |-> TRUE, fn |-> "lightnessAnchors",
                    arg |-> [contrastLevel |-> contrastLevel,
                             brightnessLevel |-> brightnessLevel],
                    result |-> lightnessAnchors(contrastLevel, brightnessLevel)]
  /\ UNCHANGED <<serverVars, engineVars, clampRun, workers, limiterVars>>

\* The lines of generateTheme that compute baseChroma and scale it for the
\* brand and status colours run on a saturationLevel (on the hues of
\* "triadic" from 0 and the anchors of the default levels, which the chroma
\* does not depend on).
ComputeChroma(saturationLevel) ==
  /\ helperCall' =
       [made |-> TRUE, fn |-> "baseChroma", arg |-> saturationLevel,
        result |-> [baseChroma |-> baseChromaOf(saturationLevel),
                    light |-> lightColors(harmonyHues("triadic", 0), lightnessAnchors(0, 0),
                                          baseChromaOf(saturationLevel)),
                    dark  |-> darkColors(harmonyHues("triadic", 0), lightnessAnchors(0, 0),
                                         baseChromaOf(saturationLevel))]]
  /\ UNCHANGED <<serverVars, engineVars, clampRun, workers, limiterVars>>

\* The helper functions called directly.
NextHelpers ==
  \/ \E hex \in ColourStrings \cup MalformedStrings : CallHexToRgb(hex)
  \/ \E bgHex \in ColourStrings \cup MalformedStrings : CallSelectForeground(bgHex)
  \/ \E mode \in DOMAIN HARMONY_MODES, baseHue \in BaseHueDoubles :
       CallResolveHues(mode, baseHue)
  \/ \E contrastLevel \in Levels, brightnessLevel \in Levels :
       ComputeAnchors(contrastLevel, brightnessLevel)
  \/ \E saturationLevel \in Levels : ComputeChroma(saturationLevel)

SpecHelpers == Init /\ [][NextHelpers]_vars

\* clampToSRGBGamut called directly.  The function is synchronous: once
\* entered, its loop and its return are not held up.
NextRoundTrip == \E hex \in RoundTripColours : CallRoundTrip(hex)

SpecRoundTrip == Init /\ [][NextRoundTrip]_vars

\* The limits the two limiters are called with.
LimitMaxima == {2, RateLimitMax}

\* A request is given to the rate limiter of generate-theme.ts and to that
\* of utils/rate-limit.ts, with the same max and the same windowMs, at the
\* same Date.now(); the call of the second runs the cleanup or not.
LimitBoth(req, max, cleanup) ==
  LET inline == rateLimit(rateLimitStore, req, max, RateLimitWindowMs, clock)
      shared == utilRateLimit(utilStore, req, max, RateLimitWindowMs, clock, cleanup)
  IN  /\ rateLimitStore' = inline.store
      /\ utilStore' = shared.store
      /\ lastPair' = [made |-> TRUE, ip |-> getClientIP(req), at |-> clock, max |-> max,
                      cleanup |-> cleanup, inline |-> inline.result, shared |-> shared.result,
                      inlineBefore |-> rateLimitStore, sharedBefore |-> utilStore]
      /\ UNCHANGED <<clock, suspended, sent, lastLimit, admitLog, retryDue, engineVars,
                     clampRun, helperCall, workers>>

LimitClient(ip) ==
  \E max \in LimitMaxima, cleanup \in BOOLEAN :
    LimitBoth(Request("POST", <<ip>>, TriadicBody), max, cleanup)

\* The two limiters side by side, around the end of a window.
NextLimiters ==
  \/ \E ip \in {AddressA, AddressB} : LimitClient(ip)
  \/ \E t \in LimiterInstants : Tick(t)

SpecLimiters == Init /\ [][NextLimiters]_vars

\* Time keeps advancing and each client keeps making requests.
SpecRetrying ==
  /\ SpecLimiters
  /\ WF_vars(\E t \in LimiterInstants : Tick(t))
  /\ \A ip \in {AddressA, AddressB} : WF_vars(LimitClient(ip))

NextClamp ==
  \/ \E color \in ClampColors : ClampEnter(color)
  \/ ClampIterate
  \/ ClampReturn

SpecClamp ==
  Init /\ [][NextClamp]_vars /\ WF_vars(ClampIterate) /\ WF_vars(ClampReturn)

\* The calls the workers make: "random" and a fixed mode without a base
\* colour, and "random" with one.
WorkerRequests ==
  {Args("random", undefined, <<0, 0, 0>>), Args("triadic", undefined, <<0, 0, 0>>),
   Args("random", HexBlue, <<0, 0, 0>>)}

\* The SeededRandom a worker's invocation draws from: `rng` is a local of
\* generateTheme, constructed by the call, so each invocation has its own.
rngOwnerShared(w) == 1

rngOwner(w) == w

\* A step of worker w is interleaved with every invocation under way elsewhere.
stepOf(w, invocation, rng) ==
  LET stepped == [workers EXCEPT ![w] = invocation]
      seeded  == [stepped EXCEPT ![rngOwner(w)].rng = rng]
  IN  [v \in Workers |->
         IF v # w /\ seeded[v].pc \in {"constructed", "picked", "resolved"}
         THEN [seeded[v] EXCEPT !.interleaved = TRUE] ELSE seeded[v]]

\* A worker enters generateTheme: rngSeed and new SeededRandom(rngSeed).
Invoke(w, args, entropy) ==
  /\ workers[w].pc \in {"idle", "returned"}
  /\ workers' = stepOf(w, [NoInvocation EXCEPT !.pc = "constructed", !.args = args,
                                               !.entropy = entropy,
                                               !.harmonyMode = args.mode],
                       hashString(IF Truthy(args.baseColor) THEN args.baseColor ELSE entropy))
  /\ UNCHANGED <<serverVars, engineVars, clampRun, helperCall, limiterVars>>

\* The worker resolves the harmony mode, with a draw when it is "random".
PickMode(w) ==
  /\ workers[w].pc = "constructed"
  /\ LET rng    == workers[rngOwner(w)].rng
         picked == next(rng)
     IN  workers' =
           IF workers[w].args.mode = "random"
           THEN stepOf(w, [workers[w] EXCEPT
                             !.pc = "picked",
                             !.harmonyMode =
                               RandomModes[((picked.value * Len(RandomModes)) \div Q) + 1]],
                       picked.seed)
           ELSE stepOf(w, [workers[w] EXCEPT !.pc = "picked"], rng)
  /\ UNCHANGED <<serverVars, engineVars, clampRun, helperCall, limiterVars>>

\* The worker takes the base hue from the base colour, or draws it.
PickHue(w) ==
  /\ workers[w].pc = "picked"
  /\ LET rng   == workers[rngOwner(w)].rng
         drawn == nextFloat(rng, 0, 360)
     IN  workers' =
           IF Truthy(workers[w].args.baseColor)
           THEN stepOf(w, [workers[w] EXCEPT
                             !.pc = "resolved",
                             !.baseHue = toOklch[workers[w].args.baseColor].H],
                       rng)
           ELSE stepOf(w, [workers[w] EXCEPT !.pc = "resolved", !.baseHue = drawn.value],
                       drawn.seed)
  /\ UNCHANGED <<serverVars, engineVars, clampRun, helperCall, limiterVars>>

\* The worker builds the two themes and returns.
Return(w) ==
  /\ workers[w].pc = "resolved"
  /\ LET call == workers[w]
     IN  workers' =
           stepOf(w, [call EXCEPT
                        !.pc = "returned",
                        !.result = themesFrom(call.harmonyMode, call.baseHue,
                                              call.args.baseColor,
                                              call.args.saturationLevel,
                                              call.args.contrastLevel,
                                              call.args.brightnessLevel)],
                  workers[rngOwner(w)].rng)
  /\ UNCHANGED <<serverVars, engineVars, clampRun, helperCall, limiterVars>>

NextWorkers ==
  \E w \in Workers :
    \/ \E args \in WorkerRequests, entropy \in EntropyStrings : Invoke(w, args, entropy)
    \/ PickMode(w)
    \/ PickHue(w)
    \/ Return(w)

SpecWorkers == Init /\ [][NextWorkers]_vars

(***************************************************************************)
(* Properties                                                              *)
(***************************************************************************)
\* The last two direct calls of generateTheme were passed the same arguments.
SameArguments == engineCall.made /\ enginePrev.made /\ engineCall.args = enginePrev.args

SameThemes ==
  /\ engineCall.result.light = enginePrev.result.light
  /\ engineCall.result.dark = enginePrev.result.dark

\* The base colour passed is a string of at least one character, the case in
\* which `baseColor || ...` yields the base colour itself.
BaseColorPassed(args) == args.baseColor # undefined /\ args.baseColor # <<>>

\* C1 as stated: two calls of generateTheme with identical arguments, the base
\* colour present or absent, return identical light and identical dark token
\* maps whatever the clock and Math.random yield between them.
C1_DeterminismAnyBaseColor == SameArguments => SameThemes

\* C1 amended: two calls of generateTheme with identical arguments whose
\* baseColor is a non-empty string return identical light and identical dark
\* token maps whatever the clock and Math.random yield between them.
C1_DeterminismWithBaseColor ==
  (SameArguments /\ BaseColorPassed(engineCall.args)) => SameThemes

\* Two calls with the same arguments and a base colour, made at different
\* readings of the clock and of Math.random.
C1_Witness ==
  /\ SameArguments
  /\ BaseColorPassed(engineCall.args)
  /\ engineCall.entropy # enginePrev.entropy
  /\ engineCall.args.mode = "random"
  /\ SameThemes

\* C2: when mode is "random" and the same explicit baseColor string (a
\* non-empty one; `baseColor ||` reads the empty string as absent) is passed,
\* every call resolves to the same concrete mode, whatever the clock,
\* Math.random, the adjustment levels and the calls made before.
C2_RandomModeFromBaseColor ==
  (/\ engineCall.made /\ enginePrev.made
   /\ engineCall.args.mode = "random" /\ enginePrev.args.mode = "random"
   /\ engineCall.args.baseColor = enginePrev.args.baseColor
   /\ BaseColorPassed(engineCall.args))
    => engineCall.result.mode = enginePrev.result.mode

\* Two "random" calls on one base colour that differ in their levels and in
\* the clock and Math.random readings.
C2_Witness ==
  /\ engineCall.made /\ enginePrev.made
  /\ engineCall.args.mode = "random" /\ enginePrev.args.mode = "random"
  /\ engineCall.args.baseColor = HexBlue /\ enginePrev.args.baseColor = HexBlue
  /\ engineCall.args.saturationLevel # enginePrev.args.saturationLevel
  /\ engineCall.entropy # enginePrev.entropy
  /\ engineCall.result.mode = enginePrev.result.mode

\* The style a POST request asks for, with the default of the handler.
RequestedStyle(req) == withDefault(req.body.style, Str("random")).val

\* C3: the mode generateTheme returns, which is metadata.style of the 200
\* response, is never "random": it is the requested mode when that is one of
\* the 8 concrete modes and a key of the harmony table when "random" is
\* requested.
C3_ModeResolved ==
  (sent.made /\ sent.response.status = 200 /\ sent.request.method = "POST")
    => /\ sent.response.json.metadata.style # "random"
       /\ sent.response.json.metadata.style \in DOMAIN HARMONY_MODES
       /\ RequestedStyle(sent.request) # "random"
            => sent.response.json.metadata.style = RequestedStyle(sent.request)

\* A 200 response to a request for "random".
C3_Witness ==
  /\ sent.made /\ sent.response.status = 200 /\ sent.request.method = "POST"
  /\ RequestedStyle(sent.request) = "random"
  /\ sent.response.json.metadata.style \in DOMAIN HARMONY_MODES

\* C4: whenever a baseColor is passed (a non-empty string; `baseColor ||`
\* reads the empty string as absent), the seed of the result equals it
\* character for character, for every mode and all levels.
C4_SeedIsBaseColor ==
  (engineCall.made /\ BaseColorPassed(engineCall.args))
    => engineCall.result.seed = engineCall.args.baseColor

\* A call with a lower-case base colour, non-zero levels aside.
C4_Witness ==
  /\ engineCall.made
  /\ engineCall.args.baseColor = HexOrange
  /\ engineCall.result.seed = HexOrange

TokenKeys ==
  {"bg", "card", "card2", "text", "textMuted", "textOnColor", "primary", "primaryFg",
   "secondary", "secondaryFg", "accent", "accentFg", "border", "ring", "good", "goodFg",
   "warn", "warnFg", "bad", "badFg"}

\* '#' followed by exactly six hexadecimal digits.
WellFormedToken(token) ==
  Len(token) = 7 /\ token[1] = "#" /\ \A i \in 2..7 : IsHexDigit(token[i])

WellFormedTheme(theme) ==
  DOMAIN theme = TokenKeys /\ \A k \in TokenKeys : WellFormedToken(theme[k])

\* C5: for every mode, every baseColor (absent, well formed or malformed) and
\* all levels in -5..5, the light and the dark result hold all 20 token keys
\* and every token is '#' followed by exactly six hexadecimal digits.
C5_TokensWellFormed ==
  engineCall.made
    => WellFormedTheme(engineCall.result.light) /\ WellFormedTheme(engineCall.result.dark)

\* A call with a malformed base colour has been followed by a call at the
\* lowest levels.
C5_Witness ==
  /\ engineCall.made /\ enginePrev.made
  /\ enginePrev.args.baseColor = HexBadDigit
  /\ WellFormedTheme(enginePrev.result.dark)
  /\ engineCall.args.brightnessLevel = -5
  /\ engineCall.args.baseColor = undefined
  /\ WellFormedTheme(engineCall.result.light)

\* The requests of a client admitted since its window of the store was
\* created.
AdmittedInWindow(ip) ==
  {i \in DOMAIN admitLog[ip] : admitLog[ip][i] >= rateLimitStore[ip].resetTime - RateLimitWindowMs}

\* C6: for each client, from the request that creates a window up to the
\* first later request with now > resetTime at most max requests are
\* admitted, and every store entry has 1 <= count <= max, under every
\* interleaving of the handler invocations.
C6_WindowLimit ==
  \A ip \in DOMAIN rateLimitStore :
    /\ 1 <= rateLimitStore[ip].count
    /\ rateLimitStore[ip].count <= RateLimitMax
    /\ Cardinality(AdmittedInWindow(ip)) <= RateLimitMax

\* A client has used its window up and a further request of it is rejected
\* while another invocation is still waiting to resume.
C6_Witness ==
  /\ lastLimit.made /\ ~lastLimit.result.success
  /\ rateLimitStore[lastLimit.ip].count = RateLimitMax
  /\ Cardinality(AdmittedInWindow(lastLimit.ip)) = RateLimitMax
  /\ Len(suspended) = MaxPending

\* C7: for every client and every interval of 60 000 ms, at most 10 POST
\* requests of the client inside the interval are admitted (stated for the
\* interval that ends now; admitLog keeps the admissions back to
\* clock - 60 000).
C7_AnyMinuteLimit ==
  \A ip \in Addresses :
    Cardinality({i \in DOMAIN admitLog[ip] : admitLog[ip][i] > clock - RateLimitWindowMs})
      <= RateLimitMax

\* C8: when a request at t is rejected with retryAfter r, the next request of
\* the client, if made at t + 1000 * r or later, is admitted (due holds
\* t + 1000 * r of the request before, when that one was rejected).
C8_AdmittedAfterRetryAfter ==
  lastLimit.made
    => \A due \in lastLimit.due : lastLimit.at >= due => lastLimit.result.success

\* The code the checks of the claim give a body, in the order of the claim:
\* the style, then the three levels, then the base colour.
ExpectedCode(body) ==
  LET styleOK == \/ body.style = Missing
                 \/ body.style.type = "string" /\ body.style.val \in GenerationMode
      levelOK(level) == \/ level = Missing
                        \/ level.type = "number" /\ level.val \in -5..5
      colorOK == \/ body.baseColor \in {undefined, <<>>}
                 \/ WellFormedToken(body.baseColor)
  IN  IF ~styleOK THEN "INVALID_STYLE"
      ELSE IF ~(levelOK(body.saturation) /\ levelOK(body.contrast) /\ levelOK(body.brightness))
      THEN "INVALID_PARAMETERS"
      ELSE IF ~colorOK THEN "INVALID_BASE_COLOR"
      ELSE ""

\* C9: a POST that passed the rate limit is answered 200, with generateTheme
\* called, only when the style is one of the 9, each level is a number in
\* -5..5 and baseColor is falsy or '#' and six hex digits; otherwise it is
\* answered 400 without a call of generateTheme, with the code of the first
\* failing check in the order INVALID_STYLE, INVALID_PARAMETERS,
\* INVALID_BASE_COLOR.
C9_ValidationOrder ==
  (sent.made /\ sent.request.method = "POST" /\ sent.response.status # 429)
    => IF ExpectedCode(sent.request.body) = ""
       THEN /\ sent.response.status = 200
            /\ sent.called = <<engineArgs(sent.request.body)>>
       ELSE /\ sent.response.status = 400
            /\ sent.called = <<>>
            /\ sent.response.json.code = ExpectedCode(sent.request.body)

\* A body whose brightness is out of range and whose base colour is malformed
\* is answered INVALID_PARAMETERS.
C9_Witness ==
  /\ sent.made /\ sent.request.method = "POST"
  /\ sent.request.body.brightness = Num(-6)
  /\ sent.request.body.baseColor = HexBadDigit
  /\ sent.response.status = 400
  /\ sent.response.json.code = "INVALID_PARAMETERS"
  /\ sent.called = <<>>

\* C10: the handler checks the method, then the rate limit, then the body:
\* OPTIONS is answered 200 and every other method but POST 405
\* METHOD_NOT_ALLOWED without the store read or changed; every POST is
\* counted by the limiter before its body is validated, so a POST answered
\* 400 consumes quota as one answered 200 does, and a POST over the limit is
\* answered 429 even when its body is invalid.
C10_CheckOrder ==
  sent.made
    => IF sent.request.method = "OPTIONS"
       THEN sent.response.status = 200 /\ ~sent.limited /\ ~sent.charged
       ELSE IF sent.request.method # "POST"
       THEN /\ sent.response.status = 405
            /\ sent.response.json.code = "METHOD_NOT_ALLOWED"
            /\ ~sent.limited /\ ~sent.charged
       ELSE /\ sent.limited
            /\ sent.response.status \in {200, 400, 429}
            /\ sent.charged <=> sent.response.status \in {200, 400}

\* A POST with an invalid body is answered 429 once the quota is used up.
C10_Witness ==
  /\ sent.made /\ sent.request.method = "POST"
  /\ sent.request.body \in InvalidBodies
  /\ sent.response.status = 429
  /\ ~sent.charged

\* C11: clampToSRGBGamut, on every colour (chroma zero, negative or far too
\* large included), returns after exactly 10 passes of its loop: it never
\* leaves the loop early and every call that has entered returns.
C11_ClampTerminates ==
  /\ [](clampRun.pc = "returned" => clampRun.i = 10)
  /\ [](clampRun.pc = "loop" => clampRun.i \in 0..10)
  /\ (clampRun.pc = "loop") ~> (clampRun.pc = "returned")

\* A call on a colour of negative chroma has returned.
C11_Witness ==
  /\ clampRun.pc = "returned"
  /\ clampRun.color.C < 0
  /\ clampRun.i = 10
  /\ clampRun.result.C < 0

\* An optional '#' followed by exactly six hexadecimal digits.
SixHexDigits(str) ==
  \/ Len(str) = 6 /\ \A i \in 1..6 : IsHexDigit(str[i])
  \/ Len(str) = 7 /\ str[1] = "#" /\ \A i \in 2..7 : IsHexDigit(str[i])

\* C12: hexToRgb returns {r: 0, g: 0, b: 0} for every string that is not an
\* optional '#' followed by exactly six hexadecimal digits (three-digit hex
\* and the empty string included), and three integers in 0..255 for every
\* string that is.
C12_HexParsingTotal ==
  (helperCall.made /\ helperCall.fn = "hexToRgb")
    => IF SixHexDigits(helperCall.arg)
       THEN /\ helperCall.result.r \in 0..255
            /\ helperCall.result.g \in 0..255
            /\ helperCall.result.b \in 0..255
       ELSE helperCall.result = [r |-> 0, g |-> 0, b |-> 0]

\* hexToRgb was called on the three-digit colour and returned black.
C12_Witness ==
  /\ helperCall.made /\ helperCall.fn = "hexToRgb"
  /\ helperCall.arg = HexShort
  /\ helperCall.result = [r |-> 0, g |-> 0, b |-> 0]

Black == <<"#", "0", "0", "0", "0", "0", "0">>
White == <<"#", "F", "F", "F", "F", "F", "F">>

\* C16: selectForeground returns '#000000' if and only if the relative
\* luminance of the background is strictly greater than 0.179 and '#FFFFFF'
\* otherwise; its result is always one of the two, white on '#000000' and
\* black on '#FFFFFF'.
C16_ForegroundByLuminance ==
  (helperCall.made /\ helperCall.fn = "selectForeground")
    => /\ helperCall.result \in {Black, White}
       /\ helperCall.result = Black <=> getRelativeLuminance(helperCall.arg) > 179000
       /\ helperCall.arg = Black => helperCall.result = White
       /\ helperCall.arg = White => helperCall.result = Black

\* selectForeground was called on the grey 0x76, the darkest grey above the
\* threshold, and returned black.
C16_Witness ==
  /\ helperCall.made /\ helperCall.fn = "selectForeground"
  /\ helperCall.arg = <<"#", "7", "6", "7", "6", "7", "6">>
  /\ getRelativeLuminance(helperCall.arg) > 179000
  /\ getRelativeLuminance(helperCall.arg) < 500000
  /\ helperCall.result = Black

\* C13: for mode "complementary" and every base hue, the second resolved hue
\* equals (first resolved hue + 180) mod 360 exactly.
C13_ComplementExact ==
  (helperCall.made /\ helperCall.fn = "hues" /\ helperCall.arg.mode = "complementary")
    => helperCall.result[2]
         = <<(helperCall.result[1][1] + 180) % 360, helperCall.result[1][2],
             helperCall.result[1][3]>>

\* C14 as stated: when "random" is requested, generateTheme never returns
\* mode "monochrome" and never returns mode "complementary".
C14_RandomNeverComplementary ==
  (engineCall.made /\ engineCall.args.mode = "random")
    => engineCall.result.mode \notin {"monochrome", "complementary"}

\* C14 amended: when "random" is requested, generateTheme never returns mode
\* "monochrome"; it returns one of the seven other concrete modes,
\* "complementary" among them.
C14_RandomNeverMonochrome ==
  (engineCall.made /\ engineCall.args.mode = "random")
    => /\ engineCall.result.mode # "monochrome"
       /\ engineCall.result.mode \in
            {"analogous", "complementary", "split-complementary", "triadic", "tetradic",
             "compound", "triadic-split"}

\* A "random" request without a base colour resolved to "complementary".
C14_Witness ==
  /\ engineCall.made /\ engineCall.args.mode = "random"
  /\ engineCall.args.baseColor = undefined
  /\ engineCall.result.mode = "complementary"

\* The call before the last asked for "random" and the last call asks, with
\* the same base colour and levels, for the mode that one reported.
ResolvedModeRequested ==
  /\ engineCall.made /\ enginePrev.made
  /\ enginePrev.args.mode = "random"
  /\ engineCall.args = [enginePrev.args EXCEPT !.mode = enginePrev.result.mode]

SameResult ==
  /\ engineCall.result.light = enginePrev.result.light
  /\ engineCall.result.dark = enginePrev.result.dark
  /\ engineCall.result.seed = enginePrev.result.seed

\* C15 as stated: for every baseColor (absent included) and all levels, if
\* generateTheme("random", baseColor, s, c, b) reports mode m, its light
\* tokens, dark tokens and seed are those of generateTheme(m, baseColor, s,
\* c, b), here even with the clock and Math.random reading the same in both
\* calls.
C15_RandomAsResolvedAnyBaseColor ==
  (ResolvedModeRequested /\ engineCall.entropy = enginePrev.entropy) => SameResult

\* C15 amended: for every non-empty baseColor and all levels, if
\* generateTheme("random", baseColor, s, c, b) reports mode m, its light
\* tokens, dark tokens and seed are those of generateTheme(m, baseColor, s,
\* c, b).
C15_RandomAsResolved ==
  (ResolvedModeRequested /\ BaseColorPassed(engineCall.args)) => SameResult

\* "random" on a base colour resolved to tetradic, and tetradic was then
\* requested on that colour at another reading of the clock.
C15_Witness ==
  /\ ResolvedModeRequested
  /\ engineCall.args.baseColor = HexBlue
  /\ engineCall.args.mode = "tetradic"
  /\ engineCall.entropy # enginePrev.entropy
  /\ SameResult
\* The plan of the last call and of the call before it.
PlanOf(call) == Plans[<<call.args, call.entropy>>]

StatusKeys == {"good", "goodFg", "warn", "warnFg", "bad", "badFg"}

SameStatusTokens(a, b) ==
  \A k \in StatusKeys : a.light[k] = b.light[k] /\ a.dark[k] = b.dark[k]

StatusHuesFixed(colors) ==
  /\ colors.good.H = 145 * HueQ
  /\ colors.warn.H = 85 * HueQ
  /\ colors.bad.H = 25 * HueQ

\* C17: two calls with the same saturationLevel and brightnessLevel give the
\* same good, warn and bad tokens and the same foregrounds for them, in the
\* light theme and in the dark theme, whatever the mode, the baseColor and
\* the contrastLevel are; the status colours passed to the gamut mapper
\* always have the hues 145, 85 and 25.
C17_StatusIgnoresHarmony ==
  /\ engineCall.made =>
        /\ StatusHuesFixed(PlanOf(engineCall).light)
        /\ StatusHuesFixed(PlanOf(engineCall).dark)
  /\ (/\ engineCall.made /\ enginePrev.made
      /\ engineCall.args.saturationLevel = enginePrev.args.saturationLevel
      /\ engineCall.args.brightnessLevel = enginePrev.args.brightnessLevel)
       => SameStatusTokens(engineCall.result, enginePrev.result)

C17_Witness ==
  /\ engineCall.made /\ enginePrev.made
  /\ engineCall.args.saturationLevel = enginePrev.args.saturationLevel
  /\ engineCall.args.brightnessLevel = enginePrev.args.brightnessLevel
  /\ engineCall.args.contrastLevel /= enginePrev.args.contrastLevel
  /\ engineCall.args.mode /= enginePrev.args.mode
  /\ engineCall.args.baseColor /= enginePrev.args.baseColor
  /\ engineCall.result.light.primary /= enginePrev.result.light.primary
  /\ engineCall.result.dark.primary /= enginePrev.result.dark.primary
  /\ SameStatusTokens(engineCall.result, enginePrev.result)

BrandKeys == <<"primary", "secondary", "accent">>

\* The brand colours of both themes are on the hues hues[0], hues[1], hues[2].
BrandHuesShared(plan) ==
  \A i \in 1..3 :
    /\ plan.light[BrandKeys[i]].H = plan.hues[i]
    /\ plan.dark[BrandKeys[i]].H = plan.hues[i]

\* C18 as stated: for primary, secondary and accent the colour passed to the
\* gamut mapper has the same hue in the light and in the dark theme, and the
\* same factor applied to baseChroma, hence the same chroma.
C18_SameHueAndChromaFactor ==
  engineCall.made =>
    /\ BrandHuesShared(PlanOf(engineCall))
    /\ \A i \in 1..3 :
         PlanOf(engineCall).light[BrandKeys[i]].C = PlanOf(engineCall).dark[BrandKeys[i]].C

\* C18, amended: the hues are shared and both themes scale the same
\* baseChroma, the light theme by 1, 0.85 and 1.1, the dark theme by 0.9,
\* 0.8 and 1.
C18_SameHueOwnChromaFactor ==
  engineCall.made =>
    LET plan == PlanOf(engineCall)
        scaled(factor) == MulQ[plan.baseChroma, factor]
    IN  /\ BrandHuesShared(plan)
        /\ plan.baseChroma = baseChromaOf(engineCall.args.saturationLevel)
        /\ plan.light.primary.C = plan.baseChroma
        /\ plan.light.secondary.C = scaled(850000)
        /\ plan.light.accent.C = scaled(1100000)
        /\ plan.dark.primary.C = scaled(900000)
        /\ plan.dark.secondary.C = scaled(800000)
        /\ plan.dark.accent.C = plan.baseChroma

C18_Witness ==
  /\ engineCall.made
  /\ BrandHuesShared(PlanOf(engineCall))
  /\ Cardinality({PlanOf(engineCall).hues[i] : i \in 1..3}) = 3
  /\ \A i \in 1..3 :
       PlanOf(engineCall).light[BrandKeys[i]].C > PlanOf(engineCall).dark[BrandKeys[i]].C

AnchorsComputed == helperCall.made /\ helperCall.fn = "lightnessAnchors"

\* C19: for every brightnessLevel and contrastLevel in [-5, 5] the lightness
\* anchor of the light background lies in [0.92, 0.99] and that of the dark
\* background in [0.05, 0.12].
C19_BackgroundAnchorsInRange ==
  AnchorsComputed =>
    /\ helperCall.result.lightBgL \in 920000..990000
    /\ helperCall.result.darkBgL \in 50000..120000

\* Brightness 5: 0.97 + 0.125 is cut to 0.99 and 0.08 - 0.0375 is raised to 0.05.
C19_Witness ==
  /\ AnchorsComputed
  /\ helperCall.arg.brightnessLevel = 5
  /\ helperCall.result.lightBgL = 990000
  /\ helperCall.result.darkBgL = 50000

OneStepBrighter ==
  /\ engineCall.made /\ enginePrev.made
  /\ engineCall.entropy = enginePrev.entropy
  /\ engineCall.args =
       [enginePrev.args EXCEPT !.brightnessLevel = enginePrev.args.brightnessLevel + 1]

FoundationAnchors ==
  {"lightBgL", "lightCardL", "lightCard2L", "lightTextL",
   "darkBgL", "darkCardL", "darkCard2L", "darkTextL"}

\* C21 as stated: with mode, baseColor, saturation and contrast fixed, one
\* more step of brightness lowers the lightness anchor of no foundation token
\* (bg, card, card2, text) of either theme.
C21_BrightnessNeverLowersAnchor ==
  OneStepBrighter =>
    \A k \in FoundationAnchors :
      PlanOf(engineCall).anchors[k] >= PlanOf(enginePrev).anchors[k]

WithinOne(a, b) ==
  /\ Abs[a.r - b.r] <= 1
  /\ Abs[a.g - b.g] <= 1
  /\ Abs[a.b - b.b] <= 1

\* C23: for every well-formed six-digit colour, each channel of
\* toHex(toOklch(hex)) is within 1 of the channel of the original colour.
C23_RoundTripStable ==
  (helperCall.made /\ helperCall.fn = "roundTrip" /\ SixHexDigits(helperCall.arg)) =>
    /\ SixHexDigits(helperCall.result)
    /\ WithinOne(hexToRgb(helperCall.result), hexToRgb(helperCall.arg))

\* '#3B82F6' comes back in small letters, on the same channels.
C23_Witness ==
  /\ helperCall.made /\ helperCall.fn = "roundTrip"
  /\ helperCall.arg = HexBlue
  /\ helperCall.result # HexBlue
  /\ hexToRgb(helperCall.result) = [r |-> 59, g |-> 130, b |-> 246]

\* A double in [0, 360), as whole part and fraction.
HueInRange(hue) ==
  /\ hue[1] \in 0..359
  /\ hue[2] \in 0..(Limb - 1)
  /\ hue[3] \in 0..(Limb - 1)

\* C24: for every mode and every base hue in [0, 360) exactly five hues are
\* resolved and each lies in [0, 360), the negative offsets of the analogous
\* and complementary tables included.
C24_FiveHuesInRange ==
  (helperCall.made /\ helperCall.fn = "hues") =>
    /\ Len(helperCall.result) = 5
    /\ \A i \in 1..5 : HueInRange(helperCall.result[i])

\* Offset -30 on the base hue 0 gives 330; on the double just below 30 the
\* sum -2^-48 plus 360 rounds to 360 and the last remainder gives 0.
C24_Witness ==
  /\ helperCall.made /\ helperCall.fn = "hues"
  /\ helperCall.arg.mode = "analogous"
  /\ \/ helperCall.arg.baseHue = <<0, 0, 0>> /\ helperCall.result[3] = <<330, 0, 0>>
     \/ /\ helperCall.arg.baseHue = <<29, 16777215, 16777215>>
        /\ helperCall.result[3] = <<0, 0, 0>>

\* A call of clampToSRGBGamut on a colour of chroma zero or more is under way
\* or has returned.
ClampEntered == clampRun.pc \in {"loop", "returned"} /\ clampRun.color.C >= 0

\* The pass that is taken accepts its probe: low and result move up to it.
ProbeAccepted ==
  /\ clampRun'.low > clampRun.low
  /\ clampRun'.low < clampRun.color.C
  /\ clampRun'.result = [clampRun.color EXCEPT !.C = clampRun'.low]
  /\ clampRun'.high = clampRun.high

\* The pass that is taken rejects its probe: high moves down to it.
ProbeRejected ==
  /\ clampRun'.high < clampRun.high
  /\ clampRun'.high > clampRun.low
  /\ clampRun'.low = clampRun.low
  /\ clampRun'.result = clampRun.result

\* C25: clampToSRGBGamut keeps L and H, and the chroma of result is the
\* largest probe accepted so far, 0 when none was; 0 <= low <= high <= the
\* input chroma throughout; on a positive input chroma every probe lies
\* strictly between low and high, an accepted probe is larger than the one
\* accepted before it, and the result lies in [0, input chroma): the input
\* chroma itself is neither probed nor returned.
C25_LargestAcceptedProbe ==
  /\ [](ClampEntered =>
          /\ clampRun.result.L = clampRun.color.L
          /\ clampRun.result.H = clampRun.color.H
          /\ clampRun.result.C = clampRun.low
          /\ 0 <= clampRun.low
          /\ clampRun.low <= clampRun.high
          /\ clampRun.high <= clampRun.color.C
          /\ (clampRun.color.C > 0 => clampRun.result.C < clampRun.color.C))
  /\ [][(/\ clampRun.pc = "loop" /\ clampRun'.pc = "loop"
         /\ clampRun'.i = clampRun.i + 1
         /\ clampRun.color.C > 0) => (ProbeAccepted \/ ProbeRejected)]_vars

\* A colour inside the gamut has returned: no probe was rejected, and the
\* chroma returned is still below the one passed in.
C25_Witness ==
  /\ clampRun.pc = "returned"
  /\ clampRun.color = [L |-> 500000, C |-> 150000, H |-> 145000]
  /\ clampRun.high = clampRun.color.C
  /\ clampRun.result.C > 0
  /\ clampRun.result.C < clampRun.color.C

ChromaComputed == helperCall.made /\ helperCall.fn = "baseChroma"

ChromaKeys == {"primary", "secondary", "accent", "good", "warn", "bad"}

\* C26: for every saturationLevel in [-5, 5] baseChroma is
\* min(0.18, max(0.08, 0.14 * (1 + 0.12 * saturationLevel))), lies in
\* [0.08, 0.18] and does not fall when saturationLevel rises; no brand or
\* status colour is passed to the gamut mapper with a chroma above 1.1 * 0.18.
C26_BaseChromaClamped ==
  /\ [](ChromaComputed =>
          /\ helperCall.result.baseChroma
               = Min[180000, Max[80000, 140000 + 16800 * helperCall.arg]]
          /\ helperCall.result.baseChroma \in 80000..180000
          /\ \A k \in ChromaKeys :
               /\ helperCall.result.light[k].C <= 198000
               /\ helperCall.result.dark[k].C <= 198000)
  /\ [][(ChromaComputed /\ ChromaComputed' /\ helperCall'.arg >= helperCall.arg)
          => helperCall'.result.baseChroma >= helperCall.result.baseChroma]_vars

\* Saturation 5: 0.224 is cut to 0.18 and the light accent gets 0.198.
C26_Witness ==
  /\ ChromaComputed
  /\ helperCall.arg = 5
  /\ helperCall.result.baseChroma = 180000
  /\ helperCall.result.light.accent.C = 198000

\* The last request was given to both limiters and the one named rejected it.
InlineRejected == lastPair.made /\ ~lastPair.inline.success
SharedRejected == lastPair.made /\ ~lastPair.shared.success

\* C27 as stated: a rate-limited request changes nothing, in either
\* limiter: the entry of its client and the entries of all other clients
\* are what they were.
C27_RejectionChangesNothing ==
  /\ InlineRejected => rateLimitStore = lastPair.inlineBefore
  /\ SharedRejected => utilStore = lastPair.sharedBefore

\* C27, amended: a rate-limited request leaves the entry of its client as it
\* was, so it neither extends nor restarts the window; the limiter of
\* generate-theme.ts leaves every other entry too, while the cleanup of
\* utils/rate-limit.ts, when the call runs it, deletes the entries of other
\* clients that have expired and changes no other.
C27_RejectionKeepsWindow ==
  /\ InlineRejected => rateLimitStore = lastPair.inlineBefore
  /\ SharedRejected =>
       /\ lastPair.ip \in DOMAIN utilStore
       /\ utilStore[lastPair.ip] = lastPair.sharedBefore[lastPair.ip]
       /\ DOMAIN utilStore \subseteq DOMAIN lastPair.sharedBefore
       /\ \A k \in DOMAIN lastPair.sharedBefore :
            IF lastPair.cleanup /\ lastPair.at > lastPair.sharedBefore[k].resetTime
            THEN k \notin DOMAIN utilStore
            ELSE k \in DOMAIN utilStore /\ utilStore[k] = lastPair.sharedBefore[k]

\* A request is rejected by both limiters after the instant its window was
\* opened at; the call has run the cleanup, which took the expired entry of
\* the other client out of the store of utils/rate-limit.ts.
C27_Witness ==
  /\ InlineRejected /\ SharedRejected
  /\ lastPair.cleanup
  /\ rateLimitStore = lastPair.inlineBefore
  /\ utilStore[lastPair.ip] = lastPair.sharedBefore[lastPair.ip]
  /\ utilStore[lastPair.ip].resetTime < lastPair.at + RateLimitWindowMs
  /\ DOMAIN utilStore # DOMAIN lastPair.sharedBefore

\* The entry the client had when the last request arrived had run out.
Expired(before) ==
  /\ lastPair.made
  /\ lastPair.ip \in DOMAIN before
  /\ lastPair.at > before[lastPair.ip].resetTime

FreshEntry == [count |-> 1, resetTime |-> lastPair.at + RateLimitWindowMs]

LastInstant == RateLimitWindowMs + 1

\* C28: a request made strictly after the resetTime of its client's entry is
\* admitted and replaces the entry by {count: 1, resetTime: now + windowMs},
\* in both limiters; and when time keeps advancing a client that keeps
\* retrying after a rejection is admitted in the end (stated for the
\* windows that end before the last instant of the model).
C28_NoPermanentLockout ==
  /\ [](Expired(lastPair.inlineBefore) =>
          lastPair.inline.success /\ rateLimitStore[lastPair.ip] = FreshEntry)
  /\ [](Expired(lastPair.sharedBefore) =>
          lastPair.shared.success /\ utilStore[lastPair.ip] = FreshEntry)
  /\ \A ip \in {AddressA, AddressB} :
       (/\ InlineRejected /\ lastPair.ip = ip
        /\ rateLimitStore[ip].resetTime < LastInstant)
         ~> (lastPair.made /\ lastPair.ip = ip /\ lastPair.inline.success)

\* A client that had used its window up is admitted after the window's end.
C28_Witness ==
  /\ Expired(lastPair.inlineBefore)
  /\ lastPair.inlineBefore[lastPair.ip].count = lastPair.max
  /\ lastPair.inline.success
  /\ rateLimitStore[lastPair.ip] = FreshEntry
  /\ utilStore[lastPair.ip] = FreshEntry

\* C29: given the same max, the same windowMs and the same requests with an
\* x-forwarded-for header at non-decreasing times, the limiter of
\* utils/rate-limit.ts and the limiter of generate-theme.ts return the same
\* success and the same retryAfter for every request, whichever calls run
\* the cleanup.
C29_LimitersEquivalent ==
  lastPair.made => lastPair.shared = lastPair.inline

\* The cleanup has made the two stores differ, and the answers still agree
\* on a request that is admitted into a window opened earlier.
C29_Witness ==
  /\ lastPair.made
  /\ DOMAIN utilStore # DOMAIN rateLimitStore
  /\ lastPair.inline.success
  /\ lastPair.shared = lastPair.inline
  /\ rateLimitStore[lastPair.ip].count > 1

\* C30 as stated: for every brightnessLevel and contrastLevel in [-5, 5]
\* the light card anchor is strictly below the light background anchor, the
\* light card2 anchor strictly below the card anchor, and each of the three
\* strictly below 1.
C30_LightSurfacesOrdered ==
  AnchorsComputed =>
    /\ helperCall.result.lightCardL < helperCall.result.lightBgL
    /\ helperCall.result.lightCard2L < helperCall.result.lightCardL
    /\ helperCall.result.lightBgL < Q
    /\ helperCall.result.lightCardL < Q
    /\ helperCall.result.lightCard2L < Q


====
